---------------------------- MODULE Spec2Model ----------------------------
(***************************************************************************)
(* A model of the auto-commit watcher                                      *)
(* (python-ml-foundation/18_logistic_regression/test.py): the status       *)
(* parser get_changed_files, the classifier get_file_category, the diff    *)
(* analysers, the message synthesizer generate_smart_message, the gateway  *)
(* wrappers stage_all_changes / commit_changes / push_changes and the      *)
(* polling loop of main.                                                   *)
(*                                                                         *)
(* Text is a sequence of one-character strings, so that slicing, strip,    *)
(* split and substring search are computed as Python computes them.  A     *)
(* commit message is a TLA+ string built from such texts.                  *)
(***************************************************************************)
EXTENDS Integers, Sequences, FiniteSets, TLC

VARIABLES
    pc,            \* position of main: start, collect, synth, dryrun, stage, commit, push, sleep, done
    args,          \* the parsed command line: [once, dry_run, push]
    commit_count,  \* main's commit_count
    changes,       \* the ChangeSet of the current cycle: [added, modified, deleted, untracked]
    message,       \* the message of the current cycle (NoMessage is Python's None)
    tree,          \* the repository's uncommitted changes, as the entries git status reports
    diffs,         \* the diff text git diff returns, per category of the analysed file
    head,          \* the commits made, oldest first: [message, files]
    pushed,        \* how many commits of head the remote has
    stdout,        \* the text the last git status call printed
    calls,         \* the gateway calls of the current cycle, in order: [op, ok]
    printed,       \* what the current cycle printed, in order
    exitCode,      \* the process's exit code once pc = "done" (NoExit before)
    sigints,       \* the SIGINTs delivered so far, each with the position it hit
    hashOrder,     \* the order in which this process iterates the set other_cats
    cycle,         \* the number of the current cycle
    invocations,   \* how often generate_smart_message ran on the current ChangeSet: 0, 1, or
                   \* 2 for twice or more
    prevMessage,   \* the message of the invocation before the last one
    edits,         \* how often the user changed the working tree
    file_category, \* the category the last call of get_file_category returned
    diffed,        \* the paths git diff was called for in the current cycle, in order
    analysis       \* what the analysers returned in the current cycle, per category

vars == <<pc, args, commit_count, changes, message, tree, diffs, head, pushed, stdout,
          calls, printed, exitCode, sigints, hashOrder, cycle, invocations, prevMessage,
          edits, file_category, diffed, analysis>>

(***************************************************************************)
(* Bounds of the model.                                                    *)
(***************************************************************************)
MaxLines == 3     \* entries of a status output (pure-function specifications)
MaxFiles == 3     \* paths of a ChangeSet (pure-function specifications)
MaxCycles == 2    \* cycles of the polling loop
MaxEdits == 1     \* edits of the working tree by the user while the loop runs
MaxSigints == 2   \* SIGINTs delivered to the process
MaxOrdered == 4   \* entries of a status output whose lines come in any order
MaxTouched == 4   \* entries of a status output with several files of a category

(***************************************************************************)
(* Python's str operations on texts.                                       *)
(***************************************************************************)
Whitespace == {" ", "\n", "\t", "\r"}

Min(a, b) == IF a < b THEN a ELSE b

Range(s) == {s[i] : i \in 1..Len(s)}

\* s[:n]
Take(s, n) == SubSeq(s, 1, Min(n, Len(s)))

\* s[n:]
Drop(s, n) == SubSeq(s, n + 1, Len(s))

RECURSIVE lstrip(_)
lstrip(s) == IF s # <<>> /\ Head(s) \in Whitespace THEN lstrip(Tail(s)) ELSE s

RECURSIVE rstrip(_)
rstrip(s) ==
    IF s # <<>> /\ s[Len(s)] \in Whitespace THEN rstrip(SubSeq(s, 1, Len(s) - 1)) ELSE s

\* str.strip()
strip(s) == rstrip(lstrip(s))

StartsWith(s, p) == Len(p) <= Len(s) /\ SubSeq(s, 1, Len(p)) = p

\* str.find: the 0-based index of the first occurrence of sub in s, or -1
RECURSIVE find_from(_, _, _)
find_from(s, sub, i) ==
    IF i + Len(sub) > Len(s) THEN -1
    ELSE IF \A k \in 1..Len(sub) : s[i + k] = sub[k] THEN i
    ELSE find_from(s, sub, i + 1)

find(s, sub) == find_from(s, sub, 0)

\* sub in s
Contains(s, sub) == find(s, sub) >= 0

\* s.count(sub): non-overlapping occurrences, left to right
RECURSIVE count(_, _)
count(s, sub) ==
    LET i == find(s, sub)
    IN  IF i < 0 THEN 0 ELSE 1 + count(Drop(s, i + Len(sub)), sub)

\* s.split(sep), sep not empty
RECURSIVE split(_, _)
split(s, sep) ==
    LET i == find(s, sep)
    IN  IF i < 0 THEN <<s>>
        ELSE <<Take(s, i)>> \o split(Drop(s, i + Len(sep)), sep)

\* s.rfind(c) for a single character c: 0-based, or -1
RECURSIVE rfind_char(_, _)
rfind_char(s, c) ==
    IF s = <<>> THEN -1
    ELSE IF s[Len(s)] = c THEN Len(s) - 1
    ELSE rfind_char(SubSeq(s, 1, Len(s) - 1), c)

UpperAlphabet == <<"A","B","C","D","E","F","G","H","I","J","K","L","M","N","O","P","Q","R","S","T","U","V","W","X","Y","Z">>
LowerAlphabet == <<"a","b","c","d","e","f","g","h","i","j","k","l","m","n","o","p","q","r","s","t","u","v","w","x","y","z">>

LowerOf == [c \in Range(UpperAlphabet) |->
              LowerAlphabet[CHOOSE i \in 1..Len(UpperAlphabet) : UpperAlphabet[i] = c]]

lower_char(c) == IF c \in DOMAIN LowerOf THEN LowerOf[c] ELSE c

\* str.lower()
lower(s) == [i \in 1..Len(s) |-> lower_char(s[i])]

\* the text as a string, for an f-string
RECURSIVE Str(_)
Str(s) == IF s = <<>> THEN "" ELSE Head(s) \o Str(Tail(s))

\* sep.join(strings)
RECURSIVE join(_, _)
join(sep, strs) ==
    IF strs = <<>> THEN ""
    ELSE IF Len(strs) = 1 THEN strs[1]
    ELSE strs[1] \o sep \o join(sep, Tail(strs))

(***************************************************************************)
(* pathlib: Path(p).name, .suffix and .stem.                               *)
(***************************************************************************)
\* the components of a path: empty components and "." are dropped
IsComponent(c) == c # <<>> /\ c # <<".">>

path_parts(p) == SelectSeq(split(p, <<"/">>), IsComponent)

path_name(p) ==
    LET parts == path_parts(p)
    IN  IF parts = <<>> THEN <<>> ELSE parts[Len(parts)]

path_suffix(p) ==
    LET name == path_name(p)
        i == rfind_char(name, ".")
    IN  IF 0 < i /\ i < Len(name) - 1 THEN Drop(name, i) ELSE <<>>

path_stem(p) ==
    LET name == path_name(p)
        i == rfind_char(name, ".")
    IN  IF 0 < i /\ i < Len(name) - 1 THEN Take(name, i) ELSE name

(***************************************************************************)
(* FILE_CATEGORIES and get_file_category.                                  *)
(***************************************************************************)
FILE_CATEGORIES ==
    << [category |-> "notebooks", extensions |-> {<<".","i","p","y","n","b">>}],
       [category |-> "python", extensions |-> {<<".","p","y">>}],
       [category |-> "data",
        extensions |-> {<<".","c","s","v">>, <<".","j","s","o","n">>, <<".","x","l","s","x">>, <<".","x","l","s">>, <<".","p","a","r","q","u","e","t">>, <<".","p","k","l">>,
                        <<".","p","i","c","k","l","e">>}],
       [category |-> "models",
        extensions |-> {<<".","h","5">>, <<".","k","e","r","a","s">>, <<".","p","t">>, <<".","p","t","h">>, <<".","o","n","n","x">>, <<".","j","o","b","l","i","b">>,
                        <<".","m","o","d","e","l">>}],
       [category |-> "docs", extensions |-> {<<".","m","d">>, <<".","t","x","t">>, <<".","r","s","t">>, <<".","p","d","f">>, <<".","d","o","c","x">>}],
       [category |-> "config",
        extensions |-> {<<".","y","a","m","l">>, <<".","y","m","l">>, <<".","t","o","m","l">>, <<".","i","n","i">>, <<".","c","f","g">>, <<".","c","o","n","f","i","g">>}],
       [category |-> "web",
        extensions |-> {<<".","h","t","m","l">>, <<".","c","s","s">>, <<".","j","s">>, <<".","j","s","x">>, <<".","t","s">>, <<".","t","s","x">>}],
       [category |-> "images",
        extensions |-> {<<".","p","n","g">>, <<".","j","p","g">>, <<".","j","p","e","g">>, <<".","g","i","f">>, <<".","s","v","g">>, <<".","w","e","b","p">>}],
       [category |-> "sql", extensions |-> {<<".","s","q","l">>}] >>

RECURSIVE category_from(_, _)
category_from(ext, i) ==
    IF i > Len(FILE_CATEGORIES) THEN "other"
    ELSE IF ext \in FILE_CATEGORIES[i].extensions THEN FILE_CATEGORIES[i].category
    ELSE category_from(ext, i + 1)

\* a get_file_category that compares the suffix as it is written
get_file_category_case_sensitive(filepath) == category_from(path_suffix(filepath), 1)

get_file_category(filepath) == category_from(lower(path_suffix(filepath)), 1)

\* no call of get_file_category has returned yet
NoCategory == "<none>"

(***************************************************************************)
(* The gateway's status call: git status --porcelain prints one line per   *)
(* entry, "XY path" or "XY orig -> path", the tracked entries first.       *)
(* An entry is [code, path, orig]; orig is empty unless the entry is a     *)
(* rename or a copy.                                                       *)
(***************************************************************************)
porcelain_line(e) ==
    e.code \o <<" ">>
        \o (IF e.orig # <<>> THEN e.orig \o <<" ","-",">"," ">> \o e.path ELSE e.path)
        \o <<"\n">>

RECURSIVE git_status(_)
git_status(entries) ==
    IF entries = <<>> THEN <<>>
    ELSE porcelain_line(Head(entries)) \o git_status(Tail(entries))

(***************************************************************************)
(* get_changed_files.                                                      *)
(***************************************************************************)
NoChanges == [added |-> <<>>, modified |-> <<>>, deleted |-> <<>>, untracked |-> <<>>]

Buckets == {"added", "modified", "deleted", "untracked"}

\* result.stdout.strip().split('\n')
status_lines(out) == split(strip(out), <<"\n">>)

\* the path a status line records: line[3:].strip(), the new path of a rename
line_filepath(line) ==
    LET filepath == strip(Drop(line, 3))
    IN  IF Contains(filepath, <<" ","-",">"," ">>) THEN split(filepath, <<" ","-",">"," ">>)[2] ELSE filepath

line_bucket_added_first(line) ==
    LET status == Take(line, 2)
    IN  IF strip(status) = <<"?","?">> THEN "untracked"
        ELSE IF Contains(status, <<"A">>) \/ strip(status) = <<"A">> THEN "added"
        ELSE IF Contains(status, <<"D">>) THEN "deleted"
        ELSE "modified"

\* the bucket a status line goes to, from status = line[:2]
line_bucket(line) ==
    LET status == Take(line, 2)
    IN  IF strip(status) = <<"?","?">> THEN "untracked"
        ELSE IF Contains(status, <<"D">>) THEN "deleted"
        ELSE IF Contains(status, <<"A">>) \/ strip(status) = <<"A">> THEN "added"
        ELSE "modified"

\* the for loop over the lines, empty lines skipped
RECURSIVE collect_lines(_, _)
collect_lines(lines, acc) ==
    IF lines = <<>> THEN acc
    ELSE IF Head(lines) = <<>> THEN collect_lines(Tail(lines), acc)
    ELSE LET b == line_bucket(Head(lines))
         IN  collect_lines(Tail(lines),
                           [acc EXCEPT ![b] = Append(acc[b], line_filepath(Head(lines)))])

\* result is the outcome of the status call: [ok, stdout]; a failed call
\* (CalledProcessError) gives the empty ChangeSet
get_changed_files(result) ==
    IF result.ok THEN collect_lines(status_lines(result.stdout), NoChanges) ELSE NoChanges

all_files(ch) == ch.added \o ch.modified \o ch.untracked \o ch.deleted

total_changes(ch) == Len(ch.added) + Len(ch.modified) + Len(ch.deleted) + Len(ch.untracked)

(***************************************************************************)
(* The diff analysers.  result is the outcome of the git diff call:        *)
(* [raised, stdout]; raised says that an exception was raised inside the   *)
(* try block (the call has no check=True, so a failing git diff is not an  *)
(* exception: it returns what it printed).                                 *)
(***************************************************************************)
AnyOf(diff, keywords) == \E k \in keywords : Contains(diff, k)

When(cond, indicator) == IF cond THEN <<indicator>> ELSE <<>>

\* a notebook analyser that looks for the keywords as they are written
analyze_notebook_changes_case_sensitive(result) ==
    IF result.raised THEN <<"notebook updates">>
    ELSE
        LET diff == result.stdout
            indicators ==
                When(AnyOf(diff, {<<"m","a","t","p","l","o","t","l","i","b">>, <<"p","l","t",".">>, <<"s","e","a","b","o","r","n">>}), "visualizations")
                \o When(AnyOf(diff, {<<"t","r","a","i","n">>, <<"f","i","t">>, <<"m","o","d","e","l">>}), "model training")
                \o When(Contains(diff, <<"i","m","p","o","r","t">>) /\ Contains(diff, <<"+">>), "dependencies")
                \o When(AnyOf(diff, {<<"r","e","a","d","_","c","s","v">>, <<"l","o","a","d">>}), "data loading")
                \o When(AnyOf(diff, {<<"c","l","e","a","n">>, <<"f","i","l","l","n","a">>, <<"d","r","o","p","n","a">>}), "data cleaning")
                \o When(AnyOf(diff, {<<"f","e","a","t","u","r","e">>, <<"e","n","g","i","n","e","e","r">>}), "feature engineering")
                \o When(AnyOf(diff, {<<"a","c","c","u","r","a","c","y">>, <<"s","c","o","r","e">>, <<"m","e","t","r","i","c">>}), "evaluation")
        IN  IF indicators # <<>> THEN indicators ELSE <<"notebook updates">>

analyze_notebook_changes(result) ==
    IF result.raised THEN <<"notebook updates">>
    ELSE
        LET diff == lower(result.stdout)
            indicators ==
                When(AnyOf(diff, {<<"m","a","t","p","l","o","t","l","i","b">>, <<"p","l","t",".">>, <<"s","e","a","b","o","r","n">>}), "visualizations")
                \o When(AnyOf(diff, {<<"t","r","a","i","n">>, <<"f","i","t">>, <<"m","o","d","e","l">>}), "model training")
                \o When(Contains(diff, <<"i","m","p","o","r","t">>) /\ Contains(diff, <<"+">>), "dependencies")
                \o When(AnyOf(diff, {<<"r","e","a","d","_","c","s","v">>, <<"l","o","a","d">>}), "data loading")
                \o When(AnyOf(diff, {<<"c","l","e","a","n">>, <<"f","i","l","l","n","a">>, <<"d","r","o","p","n","a">>}), "data cleaning")
                \o When(AnyOf(diff, {<<"f","e","a","t","u","r","e">>, <<"e","n","g","i","n","e","e","r">>}), "feature engineering")
                \o When(AnyOf(diff, {<<"a","c","c","u","r","a","c","y">>, <<"s","c","o","r","e">>, <<"m","e","t","r","i","c">>}), "evaluation")
        IN  IF indicators # <<>> THEN indicators ELSE <<"notebook updates">>

\* an analyser of code files that applies the notebook keyword families
analyze_python_changes_by_keywords(result) == analyze_notebook_changes(result)

analyze_python_changes(result) ==
    IF result.raised THEN <<"code changes">>
    ELSE
        LET diff == result.stdout
            additions == count(diff, <<"\n","+">>) - count(diff, <<"\n","+","+","+">>)
            deletions == count(diff, <<"\n","-">>) - count(diff, <<"\n","-","-","-">>)
            indicators ==
                When(Contains(diff, <<"d","e","f"," ">>) /\ Contains(diff, <<"+","d","e","f"," ">>), "new functions")
                \o When(Contains(diff, <<"c","l","a","s","s"," ">>) /\ Contains(diff, <<"+","c","l","a","s","s"," ">>), "new classes")
                \o When(Contains(diff, <<"i","m","p","o","r","t"," ">>) /\ Contains(diff, <<"+","i","m","p","o","r","t"," ">>), "imports")
                \o When(Contains(lower(diff), <<"f","i","x">>) \/ Contains(lower(diff), <<"b","u","g">>),
                        "bug fixes")
        IN  IF indicators # <<>> THEN indicators
            ELSE IF additions > deletions * 2 THEN <<"new code">>
            ELSE IF deletions > additions * 2 THEN <<"code cleanup">>
            ELSE <<"code changes">>

(***************************************************************************)
(* generate_smart_message.                                                 *)
(***************************************************************************)
NoMessage == "<None>"

NamedCategories == {"notebooks", "python", "data", "models", "docs"}

OtherCategories == {"config", "web", "images", "sql", "other"}

\* categories = defaultdict(list); for f in all_files: categories[cat].append(f)
\* A category is `in categories` when its list is not empty.
RECURSIVE group_by_category(_, _)
group_by_category(files, acc) ==
    IF files = <<>> THEN acc
    ELSE group_by_category(Tail(files),
             [acc EXCEPT ![get_file_category(Head(files))] = Append(@, Head(files))])

categories_of(ch) ==
    group_by_category(all_files(ch), [c \in NamedCategories \cup OtherCategories |-> <<>>])

\* set(categories.keys()) - {'notebooks', 'python', 'data', 'models', 'docs'}
other_cats(ch) == {c \in OtherCategories : categories_of(ch)[c] # <<>>}

\* an action phrase that looks at deleted before added and untracked
action_phrase_deleted_first(ch) ==
    IF ch.deleted # <<>>
    THEN (IF ch.modified # <<>> THEN "Update and remove" ELSE "Remove")
    ELSE IF ch.added # <<>> \/ ch.untracked # <<>>
    THEN (IF ch.modified # <<>> THEN "Add and update" ELSE "Add")
    ELSE "Update"

action_phrase(ch) ==
    IF ch.added # <<>> \/ ch.untracked # <<>>
    THEN (IF ch.modified # <<>> THEN "Add and update" ELSE "Add")
    ELSE IF ch.deleted # <<>>
    THEN (IF ch.modified # <<>> THEN "Update and remove" ELSE "Remove")
    ELSE "Update"

\* the files git diff is called for, whatever their bucket
diff_calls_any_bucket(ch) ==
    LET notebooks == categories_of(ch)["notebooks"]
        py_files == categories_of(ch)["python"]
    IN  (IF Len(notebooks) = 1
         THEN <<[category |-> "notebooks", path |-> notebooks[1]]>> ELSE <<>>)
        \o (IF Len(py_files) = 1
            THEN <<[category |-> "python", path |-> py_files[1]]>> ELSE <<>>)

\* the files git diff is called for, in call order
diff_calls(ch) ==
    LET notebooks == categories_of(ch)["notebooks"]
        py_files == categories_of(ch)["python"]
    IN  (IF Len(notebooks) = 1 /\ notebooks[1] \in Range(ch.modified)
         THEN <<[category |-> "notebooks", path |-> notebooks[1]]>> ELSE <<>>)
        \o (IF Len(py_files) = 1 /\ py_files[1] \in Range(ch.modified)
            THEN <<[category |-> "python", path |-> py_files[1]]>> ELSE <<>>)

\* no analyser was called
NoIndicators == [notebooks |-> <<>>, python |-> <<>>]

\* what the analysers return for the files of diff_calls(ch)
returned_indicators(ch, nbResult, pyResult) ==
    LET called == {diff_calls(ch)[i].category : i \in 1..Len(diff_calls(ch))}
    IN  [notebooks |-> IF "notebooks" \in called THEN analyze_notebook_changes(nbResult)
                       ELSE <<>>,
         python |-> IF "python" \in called THEN analyze_python_changes(pyResult) ELSE <<>>]

\* notebook parts that render every indicator
notebook_parts_all_indicators(ch, notebooks, nbResult) ==
    IF notebooks = <<>> THEN <<>>
    ELSE IF Len(notebooks) = 1
    THEN (IF notebooks[1] \in Range(ch.modified)
          THEN <<Str(path_stem(notebooks[1])) \o ": "
                   \o join(", ", analyze_notebook_changes(nbResult))>>
          ELSE <<Str(path_stem(notebooks[1])) \o " notebook">>)
    ELSE <<ToString(Len(notebooks)) \o " notebooks">>

notebook_parts(ch, notebooks, nbResult) ==
    IF notebooks = <<>> THEN <<>>
    ELSE IF Len(notebooks) = 1
    THEN (IF notebooks[1] \in Range(ch.modified)
          THEN <<Str(path_stem(notebooks[1])) \o ": "
                   \o join(", ", Take(analyze_notebook_changes(nbResult), 2))>>
          ELSE <<Str(path_stem(notebooks[1])) \o " notebook">>)
    ELSE <<ToString(Len(notebooks)) \o " notebooks">>

RECURSIVE stems(_)
stems(files) ==
    IF files = <<>> THEN <<>> ELSE <<Str(path_stem(Head(files)))>> \o stems(Tail(files))

\* code parts that list the stems of up to four files
python_parts_listing_four(ch, py_files, pyResult) ==
    IF py_files = <<>> THEN <<>>
    ELSE IF Len(py_files) = 1
    THEN (IF py_files[1] \in Range(ch.modified)
          THEN <<Str(path_stem(py_files[1])) \o ".py: "
                   \o join(", ", Take(analyze_python_changes(pyResult), 2))>>
          ELSE <<Str(path_stem(py_files[1])) \o ".py">>)
    ELSE IF Len(py_files) <= 4 THEN <<"Python: " \o join(", ", stems(py_files))>>
    ELSE <<ToString(Len(py_files)) \o " Python files">>

python_parts(ch, py_files, pyResult) ==
    IF py_files = <<>> THEN <<>>
    ELSE IF Len(py_files) = 1
    THEN (IF py_files[1] \in Range(ch.modified)
          THEN <<Str(path_stem(py_files[1])) \o ".py: "
                   \o join(", ", Take(analyze_python_changes(pyResult), 2))>>
          ELSE <<Str(path_stem(py_files[1])) \o ".py">>)
    ELSE IF Len(py_files) <= 3 THEN <<"Python: " \o join(", ", stems(py_files))>>
    ELSE <<ToString(Len(py_files)) \o " Python files">>

\* labelled parts that name a single file without its extension
labelled_parts_by_stem(files, label, plural) ==
    IF files = <<>> THEN <<>>
    ELSE IF Len(files) = 1 THEN <<label \o ": " \o Str(path_stem(files[1]))>>
    ELSE <<ToString(Len(files)) \o " " \o plural>>

\* data, models and docs: "<label>: <name>" or "<n> <plural>"
labelled_parts(files, label, plural) ==
    IF files = <<>> THEN <<>>
    ELSE IF Len(files) = 1 THEN <<label \o ": " \o Str(path_name(files[1]))>>
    ELSE <<ToString(Len(files)) \o " " \o plural>>

\* the loop over other_cats, which iterates the set in the order `order`
RECURSIVE other_parts(_, _)
other_parts(categories, order) ==
    IF order = <<>> THEN <<>>
    ELSE LET cat == Head(order)
             files == categories[cat]
         IN  (IF cat \notin OtherCategories \/ files = <<>> THEN <<>>
              ELSE IF Len(files) = 1 THEN <<Str(path_name(files[1]))>>
              ELSE <<ToString(Len(files)) \o " " \o cat \o " files">>)
             \o other_parts(categories, Tail(order))

\* parts of the five named categories only, without the loop over other_cats
message_parts_named_only(ch, categories, nbResult, pyResult, order) ==
    notebook_parts(ch, categories["notebooks"], nbResult)
        \o python_parts(ch, categories["python"], pyResult)
        \o labelled_parts(categories["data"], "data", "data files")
        \o labelled_parts(categories["models"], "model", "model files")
        \o labelled_parts(categories["docs"], "docs", "documentation files")

\* parts that begin with the code files instead of the notebooks
message_parts_code_first(ch, categories, nbResult, pyResult, order) ==
    python_parts(ch, categories["python"], pyResult)
        \o notebook_parts(ch, categories["notebooks"], nbResult)
        \o labelled_parts(categories["data"], "data", "data files")
        \o labelled_parts(categories["models"], "model", "model files")
        \o labelled_parts(categories["docs"], "docs", "documentation files")
        \o other_parts(categories, order)

message_parts(ch, categories, nbResult, pyResult, order) ==
    notebook_parts(ch, categories["notebooks"], nbResult)
        \o python_parts(ch, categories["python"], pyResult)
        \o labelled_parts(categories["data"], "data", "data files")
        \o labelled_parts(categories["models"], "model", "model files")
        \o labelled_parts(categories["docs"], "docs", "documentation files")
        \o other_parts(categories, order)

\* a composition whose "(+k more)" counts the parts after the first
compose_message_counting_second(action, parts, n_files) ==
    IF parts = <<>> THEN action \o " " \o ToString(n_files) \o " files"
    ELSE IF Len(parts) = 1 THEN action \o " " \o parts[1]
    ELSE IF Len(parts) = 2 THEN action \o " " \o parts[1] \o " and " \o parts[2]
    ELSE action \o " " \o parts[1] \o ", " \o parts[2]
             \o " (+" \o ToString(Len(parts) - 1) \o " more)"

compose_message(action, parts, n_files) ==
    IF parts = <<>> THEN action \o " " \o ToString(n_files) \o " files"
    ELSE IF Len(parts) = 1 THEN action \o " " \o parts[1]
    ELSE IF Len(parts) = 2 THEN action \o " " \o parts[1] \o " and " \o parts[2]
    ELSE action \o " " \o parts[1] \o ", " \o parts[2]
             \o " (+" \o ToString(Len(parts) - 2) \o " more)"

\* a generate_smart_message without `if not all_files: return None`
generate_smart_message_unguarded(ch, nbResult, pyResult, order) ==
    compose_message(action_phrase(ch),
                    message_parts(ch, categories_of(ch), nbResult, pyResult, order),
                    Len(all_files(ch)))

generate_smart_message(ch, nbResult, pyResult, order) ==
    IF all_files(ch) = <<>> THEN NoMessage
    ELSE compose_message(action_phrase(ch),
                         message_parts(ch, categories_of(ch), nbResult, pyResult, order),
                         Len(all_files(ch)))

(***************************************************************************)
(* The inputs of the model: status entries over a pool of paths, and       *)
(* diff texts.  git status lists the tracked entries, sorted by path,      *)
(* before the untracked ones, and names a path once.                       *)
(***************************************************************************)
Untracked == <<"?","?">>

RenamedFrom == <<"o",".","p","y">>

entry(code, path) ==
    [code |-> code, path |-> path, orig |-> IF code[1] \in {"R", "C"} THEN RenamedFrom ELSE <<>>]

\* the entries of pool[i..] that assign gives a code: the untracked ones or the tracked ones
RECURSIVE entries_from(_, _, _, _)
entries_from(pool, assign, i, untracked) ==
    IF i > Len(pool) THEN <<>>
    ELSE (IF i \in DOMAIN assign /\ ((assign[i] = Untracked) <=> untracked)
          THEN <<entry(assign[i], pool[i])>> ELSE <<>>)
         \o entries_from(pool, assign, i + 1, untracked)

tree_of(pool, assign) ==
    entries_from(pool, assign, 1, FALSE) \o entries_from(pool, assign, 1, TRUE)

\* the ways to give a code to at most n paths of the pool, at most one of them a rename or a copy
Assignments(pool, codes, n) ==
    UNION { { a \in [S -> codes] : Cardinality({i \in S : a[i][1] \in {"R", "C"}}) <= 1 } :
              S \in {T \in SUBSET (1..Len(pool)) : Cardinality(T) <= n} }

\* the status outputs of at most n entries over pool, each entry with a code of codes
Trees(pool, codes, n) == {tree_of(pool, a) : a \in Assignments(pool, codes, n)}

CollectPool == << <<"a","b",".","p","y">>, <<"b",".","p","y">>, <<"n",".","i","p","y","n","b">>, <<"n","o","t","e","s",".","m","d">> >>

CollectCodes == {<<" ","M">>, <<"M"," ">>, <<"A"," ">>, <<" ","D">>, <<"A","D">>, <<"R"," ">>, Untracked}

SynthPool == << <<"a",".","p","y">>, <<"n",".","i","p","y","n","b">>, <<"n","o","t","e","s",".","m","d">>, <<"c",".","y","a","m","l">>, <<"w",".","j","s">> >>

SynthCodes == {<<"M","M">>, <<"A"," ">>, <<"D"," ">>, Untracked}

DiffEmpty == <<>>

DiffTraining ==
    <<"-","-","-"," ","a","/","f","\n","+","+","+"," ","b","/","f","\n","+","m","o","d","e","l",".","f","i","t","(","X",","," ","y",")","\n","+","p","r","i","n","t","(","a","c","c","u","r","a","c","y","_","s","c","o","r","e","(","y",","," ","p",")",")","\n">>

DiffFunction == <<"-","-","-"," ","a","/","f","\n","+","+","+"," ","b","/","f","\n","+","i","m","p","o","r","t"," ","o","s","\n","+","d","e","f"," ","l","o","a","d","(",")",":","\n","-","x"," ","="," ","1","\n">>

DiffPlain == <<"-","-","-"," ","a","/","f","\n","+","+","+"," ","b","/","f","\n","+","x"," ","="," ","1","\n","+","y"," ","="," ","2","\n","+","z"," ","="," ","3","\n","-","w"," ","="," ","0","\n">>

DiffTexts == {DiffEmpty, DiffTraining, DiffFunction, DiffPlain}

\* the diff texts to draw for a ChangeSet: one per category that is analysed
DiffChoices(ch, texts) ==
    [notebooks : IF \E c \in Range(diff_calls(ch)) : c.category = "notebooks"
                 THEN texts ELSE {DiffEmpty},
     python : IF \E c \in Range(diff_calls(ch)) : c.category = "python"
              THEN texts ELSE {DiffEmpty}]

\* the orders in which a process may iterate the set S
Orders(S) ==
    {o \in [1..Cardinality(S) -> S] : \A i, j \in 1..Cardinality(S) : o[i] = o[j] => i = j}

diff_result(text) == [raised |-> FALSE, stdout |-> text]

NoExit == "running"

(***************************************************************************)
(* The repository behind the gateway.  An entry's code XY tells what is    *)
(* staged (X) and what is not (Y).                                         *)
(***************************************************************************)
\* git add -A: everything is staged; a file added and deleted again leaves no entry
RECURSIVE git_add_all(_)
git_add_all(entries) ==
    IF entries = <<>> THEN <<>>
    ELSE LET e == Head(entries)
             staged ==
                 IF e.code = Untracked THEN <<[e EXCEPT !.code = <<"A"," ">>]>>
                 ELSE IF e.code[1] = "A" /\ e.code[2] = "D" THEN <<>>
                 ELSE IF e.code[1] = " " THEN <<[e EXCEPT !.code = <<e.code[2], " ">>]>>
                 ELSE IF e.code[2] = "D" THEN <<[e EXCEPT !.code = <<"D"," ">>]>>
                 ELSE <<[e EXCEPT !.code = <<e.code[1], " ">>]>>
         IN  staged \o git_add_all(Tail(entries))

IsStaged(e) == e.code[1] \notin {" ", "?"}

\* the paths git commit would record: those of the staged entries
RECURSIVE staged_paths(_)
staged_paths(entries) ==
    IF entries = <<>> THEN <<>>
    ELSE (IF IsStaged(Head(entries)) THEN <<Head(entries).path>> ELSE <<>>)
         \o staged_paths(Tail(entries))

\* what git commit leaves uncommitted: the unstaged part of each entry
RECURSIVE after_commit(_)
after_commit(entries) ==
    IF entries = <<>> THEN <<>>
    ELSE LET e == Head(entries)
         IN  (IF ~IsStaged(e) THEN <<e>>
              ELSE IF e.code[2] # " " THEN <<[e EXCEPT !.code = <<" ", e.code[2]>>, !.orig = <<>>]>>
              ELSE <<>>)
             \o after_commit(Tail(entries))

LoopTrees ==
    { <<>>,
      <<entry(<<"M","M">>, <<"n",".","i","p","y","n","b">>)>>,
      <<entry(<<" ","M">>, <<"a","b",".","p","y">>), entry(Untracked, <<"c",".","y","a","m","l">>), entry(Untracked, <<"w",".","j","s">>)>>,
      <<entry(<<"A","D">>, <<"t",".","t","x","t">>)>> }

LoopDiffTexts == {DiffEmpty, DiffTraining}

collected(entries) == get_changed_files([ok |-> TRUE, stdout |-> git_status(entries)])

LoopOtherCats == UNION {other_cats(collected(t)) : t \in LoopTrees}

(***************************************************************************)
(* main: the polling loop.                                                 *)
(***************************************************************************)
LoopPositions == {"collect", "synth", "dryrun", "stage", "commit", "push", "sleep"}

call(op, ok) == [op |-> op, ok |-> ok]

line(what, arg) == [what |-> what, arg |-> arg]

\* a loop whose `break` is not guarded by args.once
EndOfCycleBreak == "done"

\* a loop without the `if args.once: break`
EndOfCycleSleep == "sleep"

\* a loop that starts the next cycle without time.sleep
EndOfCycleWithoutSleep == IF args.once THEN "done" ELSE "collect"

\* where a finished cycle goes: `if args.once: break`, else time.sleep
EndOfCycle == IF args.once THEN "done" ELSE "sleep"

FinishCycle ==
    /\ pc' = EndOfCycle
    /\ exitCode' = IF args.once THEN 0 ELSE exitCode

\* get_git_root and the banner: outside a repository main exits with code 1
Startup ==
    /\ pc = "start"
    /\ \E in_repo \in BOOLEAN :
         IF in_repo
         THEN /\ pc' = "collect"
              /\ cycle' = 1
              /\ printed' = IF args.once THEN <<>> ELSE <<line("banner", "")>>
              /\ exitCode' = exitCode
         ELSE /\ pc' = "done"
              /\ cycle' = cycle
              /\ printed' = <<line("error", "Not in a git repository!")>>
              /\ exitCode' = 1
    /\ UNCHANGED <<args, commit_count, changes, message, tree, diffs, head, pushed, stdout,
                   calls, sigints, hashOrder, invocations, prevMessage, edits, file_category, diffed, analysis>>

\* a main that synthesizes a message for every ChangeSet
GetChangedFilesUnguarded ==
    /\ pc = "collect"
    /\ \E ok \in BOOLEAN :
         LET out == IF ok THEN git_status(tree) ELSE <<>>
             ch == get_changed_files([ok |-> ok, stdout |-> out])
         IN  /\ stdout' = out
             /\ changes' = ch
             /\ calls' = <<call("status", ok)>>
             /\ message' = NoMessage
             /\ invocations' = 0
             /\ diffed' = <<>>
             /\ analysis' = NoIndicators
             /\ IF TRUE
                THEN /\ pc' = "synth"
                     /\ printed' = <<>>
                     /\ exitCode' = exitCode
                ELSE /\ printed' = IF args.once THEN <<>> ELSE <<line("watching", "no changes")>>
                     /\ FinishCycle
    /\ UNCHANGED <<args, commit_count, tree, diffs, head, pushed, sigints, hashOrder, cycle,
                   prevMessage, edits, file_category>>

\* changes = get_changed_files(); total_changes; the else branch "Watching..."
GetChangedFiles ==
    /\ pc = "collect"
    /\ \E ok \in BOOLEAN :
         LET out == IF ok THEN git_status(tree) ELSE <<>>
             ch == get_changed_files([ok |-> ok, stdout |-> out])
         IN  /\ stdout' = out
             /\ changes' = ch
             /\ calls' = <<call("status", ok)>>
             /\ message' = NoMessage
             /\ invocations' = 0
             /\ diffed' = <<>>
             /\ analysis' = NoIndicators
             /\ IF total_changes(ch) > 0
                THEN /\ pc' = "synth"
                     /\ printed' = <<>>
                     /\ exitCode' = exitCode
                ELSE /\ printed' = IF args.once THEN <<>> ELSE <<line("watching", "no changes")>>
                     /\ FinishCycle
    /\ UNCHANGED <<args, commit_count, tree, diffs, head, pushed, sigints, hashOrder, cycle,
                   prevMessage, edits, file_category>>

\* a main that ignores --dry-run
commit_branch_live == "stage"

\* `if args.dry_run: ... else: stage_all_changes() ...`
commit_branch == IF args.dry_run THEN "dryrun" ELSE "stage"

\* the outcomes of one git diff call inside an analyser: it prints the diff, it fails
\* (and prints nothing), or a KeyboardInterrupt is raised inside the analyser's try
DiffOutcomes == {"ok", "failed", "interrupted"}

outcome_result(outcome, text) ==
    [raised |-> outcome = "interrupted", stdout |-> IF outcome = "ok" THEN text ELSE <<>>]

\* the paths of the diff calls dcalls
diffed_paths(dcalls) == [i \in 1..Len(dcalls) |-> dcalls[i].path]

RECURSIVE diff_call_log(_, _)
diff_call_log(dcalls, outcome) ==
    IF dcalls = <<>> THEN <<>>
    ELSE <<call("diff", outcome[Head(dcalls).category] = "ok")>>
         \o diff_call_log(Tail(dcalls), outcome)

RECURSIVE swallowed_sigints(_, _)
swallowed_sigints(dcalls, outcome) ==
    IF dcalls = <<>> THEN <<>>
    ELSE (IF outcome[Head(dcalls).category] = "interrupted"
          THEN <<IF Head(dcalls).category = "notebooks" THEN "analyze_notebook_changes"
                 ELSE "analyze_python_changes">>
          ELSE <<>>)
         \o swallowed_sigints(Tail(dcalls), outcome)

\* message = generate_smart_message(changes); `if message:`; the branch on args.dry_run
Synthesize ==
    /\ pc = "synth"
    /\ \E outcome \in [{"notebooks", "python"} -> DiffOutcomes] :
         LET dcalls == diff_calls(changes)
             called == {dcalls[i].category : i \in 1..Len(dcalls)}
             msg == generate_smart_message(changes,
                        outcome_result(outcome["notebooks"], diffs.notebooks),
                        outcome_result(outcome["python"], diffs.python), hashOrder)
         IN  /\ \A c \in {"notebooks", "python"} \ called : outcome[c] = "ok"
             /\ Len(sigints) + Len(swallowed_sigints(dcalls, outcome)) <= MaxSigints
             /\ message' = msg
             /\ prevMessage' = message
             /\ invocations' = IF invocations = 0 THEN 1 ELSE 2
             /\ calls' = calls \o diff_call_log(dcalls, outcome)
             /\ diffed' = diffed \o diffed_paths(dcalls)
             /\ analysis' = returned_indicators(
                                  changes, outcome_result(outcome["notebooks"], diffs.notebooks),
                                  outcome_result(outcome["python"], diffs.python))
             /\ sigints' = sigints \o swallowed_sigints(dcalls, outcome)
             /\ IF msg \in {NoMessage, ""}
                THEN FinishCycle
                ELSE /\ pc' = commit_branch
                     /\ exitCode' = exitCode
    /\ UNCHANGED <<args, commit_count, changes, tree, diffs, head, pushed, stdout, printed,
                   hashOrder, cycle, edits, file_category>>

RECURSIVE file_lines(_, _)
file_lines(ch, buckets) ==
    IF buckets = <<>> THEN <<>>
    ELSE (IF ch[Head(buckets)] # <<>>
          THEN <<line("files", Head(buckets))>> ELSE <<>>)
         \o file_lines(ch, Tail(buckets))

\* the dry-run branch: prints only
DryRunReport ==
    /\ pc = "dryrun"
    /\ printed' = printed \o <<line("would_commit", message)>>
                    \o file_lines(changes, <<"added", "modified", "deleted", "untracked">>)
    /\ FinishCycle
    /\ UNCHANGED <<args, commit_count, changes, message, tree, diffs, head, pushed, stdout,
                   calls, sigints, hashOrder, cycle, invocations, prevMessage, edits, file_category, diffed, analysis>>

\* a main that commits whatever stage_all_changes returned
commit_after_any_stage(staged) == TRUE

\* `stage_all_changes() and commit_changes(message)`: commit_changes is called only
\* when stage_all_changes returned True
commit_after_stage(staged) == staged

\* stage_all_changes(), and the else branch of `stage_all_changes() and commit_changes()`
StageAllChanges ==
    /\ pc = "stage"
    /\ \E ok \in BOOLEAN :
         /\ calls' = Append(calls, call("stage", ok))
         /\ tree' = IF ok THEN git_add_all(tree) ELSE tree
         /\ IF commit_after_stage(ok)
            THEN /\ pc' = "commit"
                 /\ printed' = IF ok THEN printed
                               ELSE Append(printed, line("error", "Error staging changes"))
                 /\ exitCode' = exitCode
            ELSE /\ printed' = printed \o <<line("error", "Error staging changes"),
                                            line("info", "No changes to commit")>>
                 /\ FinishCycle
    /\ UNCHANGED <<args, commit_count, changes, message, diffs, head, pushed, stdout, sigints,
                   hashOrder, cycle, invocations, prevMessage, edits, file_category, diffed, analysis>>

\* commit_changes(message), commit_count += 1 and "Committed", or the else branch
CommitChanges ==
    /\ pc = "commit"
    /\ \E ok \in BOOLEAN :
         LET files == staged_paths(tree)
             success == ok /\ files # <<>>
         IN  /\ calls' = Append(calls, call("commit", success))
             /\ IF success
                THEN /\ head' = Append(head, [message |-> message, files |-> files])
                     /\ tree' = after_commit(tree)
                     /\ commit_count' = commit_count + 1
                     /\ printed' = Append(printed, line("committed", message))
                     /\ IF args.push
                        THEN pc' = "push" /\ exitCode' = exitCode
                        ELSE FinishCycle
                ELSE /\ UNCHANGED <<head, tree, commit_count>>
                     /\ printed' =
                            printed
                            \o (IF files = <<>> THEN <<>>
                                ELSE <<line("error", "Error committing")>>)
                            \o <<line("info", "No changes to commit")>>
                     /\ FinishCycle
    /\ UNCHANGED <<args, changes, message, diffs, pushed, stdout, sigints, hashOrder, cycle,
                   invocations, prevMessage, edits, file_category, diffed, analysis>>

\* a push_changes that drops the commit when the push fails
PushChangesUndoing ==
    /\ pc = "push"
    /\ \E ok \in BOOLEAN :
         /\ calls' = Append(calls, call("push", ok))
         /\ pushed' = IF ok THEN Len(head) ELSE pushed
         /\ head' = IF ok THEN head ELSE SubSeq(head, 1, Len(head) - 1)
         /\ printed' = Append(printed, IF ok THEN line("pushed", "")
                                       ELSE line("warning", "Push failed"))
    /\ FinishCycle
    /\ UNCHANGED <<args, commit_count, changes, message, tree, diffs, stdout, sigints,
                   hashOrder, cycle, invocations, prevMessage, edits, file_category, diffed, analysis>>

\* push_changes() and "Pushed to remote"
PushChanges ==
    /\ pc = "push"
    /\ \E ok \in BOOLEAN :
         /\ calls' = Append(calls, call("push", ok))
         /\ pushed' = IF ok THEN Len(head) ELSE pushed
         /\ printed' = Append(printed, IF ok THEN line("pushed", "")
                                       ELSE line("warning", "Push failed"))
    /\ FinishCycle
    /\ UNCHANGED <<args, commit_count, changes, message, tree, diffs, head, stdout, sigints,
                   hashOrder, cycle, invocations, prevMessage, edits, file_category, diffed, analysis>>

\* time.sleep(args.interval * 60) returns
Sleep ==
    /\ pc = "sleep"
    /\ cycle < MaxCycles
    /\ pc' = "collect"
    /\ cycle' = cycle + 1
    /\ UNCHANGED <<args, commit_count, changes, message, tree, diffs, head, pushed, stdout,
                   calls, printed, exitCode, sigints, hashOrder, invocations, prevMessage,
                   edits, file_category, diffed, analysis>>

\* a KeyboardInterrupt that reaches main's except clause: raised in main itself, in
\* get_changed_files, in a gateway wrapper or in time.sleep
Interrupt ==
    /\ pc \in LoopPositions
    /\ Len(sigints) < MaxSigints
    /\ sigints' = Append(sigints, pc)
    /\ printed' = Append(printed, line("stopped", ToString(commit_count)))
    /\ pc' = "done"
    /\ exitCode' = 0
    /\ UNCHANGED <<args, commit_count, changes, message, tree, diffs, head, pushed, stdout,
                   calls, hashOrder, cycle, invocations, prevMessage, edits, file_category, diffed, analysis>>

\* the user edits files while the watcher sleeps
UserEdit ==
    /\ pc = "sleep"
    /\ edits < MaxEdits
    /\ \A i \in 1..Len(tree) : ~IsStaged(tree[i])
    /\ \E t \in LoopTrees \ {tree} :
         /\ tree' = t
         /\ diffs' \in DiffChoices(collected(t), LoopDiffTexts)
    /\ edits' = edits + 1
    /\ UNCHANGED <<pc, args, commit_count, changes, message, head, pushed, stdout, calls,
                   printed, exitCode, sigints, hashOrder, cycle, invocations, prevMessage,
                   file_category, diffed, analysis>>

Init ==
    /\ pc = "start"
    /\ args \in [once : BOOLEAN, dry_run : BOOLEAN, push : BOOLEAN]
    /\ commit_count = 0
    /\ changes = NoChanges
    /\ message = NoMessage
    /\ tree \in LoopTrees
    /\ diffs \in DiffChoices(collected(tree), LoopDiffTexts)
    /\ head = <<>>
    /\ pushed = 0
    /\ stdout = <<>>
    /\ calls = <<>>
    /\ printed = <<>>
    /\ exitCode = NoExit
    /\ sigints = <<>>
    /\ hashOrder \in Orders(LoopOtherCats)
    /\ cycle = 0
    /\ invocations = 0
    /\ prevMessage = NoMessage
    /\ edits = 0
    /\ file_category = NoCategory
    /\ diffed = <<>>
    /\ analysis = NoIndicators

Next ==
    \/ Startup
    \/ GetChangedFiles
    \/ Synthesize
    \/ DryRunReport
    \/ StageAllChanges
    \/ CommitChanges
    \/ PushChanges
    \/ Sleep
    \/ Interrupt
    \/ UserEdit

Spec == Init /\ [][Next]_vars

Positions == LoopPositions \cup {"start", "done"}

\* main goes on to its next position.  Every position of main but the sleep is a
\* statement or a call that returns (subprocess.run waits for git to end), so main
\* does not stay there; in time.sleep it stays until the interval has passed, which
\* only the bound on the cycles prevents.
Proceed ==
    /\ pc \notin {"sleep", "done"}
    /\ pc' \in Positions \ {pc}

SpecFair == Spec /\ WF_pc(Proceed)

(***************************************************************************)
(* The live loop left running: --once and --dry-run are not given, no      *)
(* SIGINT is delivered, the user changes the working tree at most once,    *)
(* and the loop goes on after the cycles that are counted.  time.sleep     *)
(* returns; a git status, git add or git commit call that is made again    *)
(* and again does not fail every time.                                     *)
(***************************************************************************)
InitLive ==
    /\ Init
    /\ ~args.once
    /\ ~args.dry_run

\* time.sleep returns in a cycle that is no longer counted
SleepOn ==
    /\ pc = "sleep"
    /\ cycle = MaxCycles
    /\ pc' = "collect"
    /\ UNCHANGED <<args, commit_count, changes, message, tree, diffs, head, pushed, stdout,
                   calls, printed, exitCode, sigints, hashOrder, cycle, invocations,
                   prevMessage, edits, file_category, diffed, analysis>>

NextLive ==
    \/ Startup
    \/ GetChangedFiles
    \/ Synthesize /\ sigints' = sigints
    \/ StageAllChanges
    \/ CommitChanges
    \/ PushChanges
    \/ Sleep
    \/ SleepOn
    \/ UserEdit /\ edits = 0

\* time.sleep returns
Wake == pc = "sleep" /\ pc' = "collect"

\* git status succeeds in a working tree with changes
StatusSucceeds == pc = "collect" /\ tree # <<>> /\ pc' = "synth"

\* git add -A succeeds
StageSucceeds == pc = "stage" /\ pc' = "commit"

\* git commit succeeds when something is staged
CommitSucceeds ==
    /\ pc = "commit"
    /\ staged_paths(tree) # <<>>
    /\ commit_count' = commit_count + 1
    /\ pc' \in {"push", "sleep"}

SpecLive ==
    /\ InitLive
    /\ [][NextLive]_vars
    /\ WF_pc(Proceed)
    /\ WF_pc(Wake)
    /\ SF_pc(StatusSucceeds)
    /\ SF_pc(StageSucceeds)
    /\ SF_<<pc, commit_count>>(CommitSucceeds)

(***************************************************************************)
(* get_changed_files as a function of the status output: every status      *)
(* output of at most MaxLines entries over CollectPool.                     *)
(***************************************************************************)
Idle ==
    /\ args = [once |-> TRUE, dry_run |-> TRUE, push |-> FALSE]
    /\ commit_count = 0
    /\ head = <<>>
    /\ pushed = 0
    /\ printed = <<>>
    /\ exitCode = NoExit
    /\ sigints = <<>>
    /\ cycle = 0
    /\ invocations = 0
    /\ message = NoMessage
    /\ prevMessage = NoMessage
    /\ edits = 0
    /\ file_category = NoCategory
    /\ diffed = <<>>
    /\ analysis = NoIndicators

InitCollect ==
    /\ Idle
    /\ pc = "input"
    /\ tree \in Trees(CollectPool, CollectCodes, MaxLines)
    /\ diffs = [notebooks |-> DiffEmpty, python |-> DiffEmpty]
    /\ hashOrder = <<>>
    /\ stdout = <<>>
    /\ calls = <<>>
    /\ changes = NoChanges

ApplyCollect ==
    /\ pc = "input"
    /\ \E ok \in BOOLEAN :
         /\ stdout' = IF ok THEN git_status(tree) ELSE <<>>
         /\ changes' = get_changed_files([ok |-> ok, stdout |-> stdout'])
         /\ calls' = <<call("status", ok)>>
    /\ pc' = "collected"
    /\ UNCHANGED <<args, commit_count, message, tree, diffs, head, pushed, printed, exitCode,
                   sigints, hashOrder, cycle, invocations, prevMessage, edits, file_category, diffed, analysis>>

SpecCollect == InitCollect /\ [][ApplyCollect]_vars

(***************************************************************************)
(* get_changed_files over the two-letter codes of git status: staged and   *)
(* unstaged modifications, additions, deletions, renames, copies, type     *)
(* changes and merge conflicts.                                            *)
(***************************************************************************)
BucketPool == << <<"a","b",".","p","y">>, <<"b",".","p","y">>, <<"n",".","i","p","y","n","b">> >>

BucketCodes ==
    {<<" ","M">>, <<"M","M">>, <<"A"," ">>, <<"A","M">>, <<" ","A">>, <<"D"," ">>,
     <<" ","D">>, <<"A","D">>, <<"M","D">>, <<"R"," ">>, <<"R","D">>, <<"C"," ">>,
     <<"T"," ">>, <<" ","T">>, <<"U","U">>, <<"A","A">>, <<"D","U">>, <<"A","U">>,
     Untracked}

InitBuckets ==
    /\ Idle
    /\ pc = "input"
    /\ tree \in Trees(BucketPool, BucketCodes, MaxLines)
    /\ diffs = [notebooks |-> DiffEmpty, python |-> DiffEmpty]
    /\ hashOrder = <<>>
    /\ stdout = <<>>
    /\ calls = <<>>
    /\ changes = NoChanges

SpecBuckets == InitBuckets /\ [][ApplyCollect]_vars

(***************************************************************************)
(* generate_smart_message as a function of the ChangeSet, the diff texts   *)
(* and the process's set order: every ChangeSet collected from a status    *)
(* output of at most MaxFiles entries over SynthPool.                      *)
(***************************************************************************)
InitSynth ==
    /\ Idle
    /\ pc = "input"
    /\ tree \in Trees(SynthPool, SynthCodes, MaxFiles)
    /\ stdout = git_status(tree)
    /\ changes = collected(tree)
    /\ calls = <<call("status", TRUE)>>
    /\ diffs \in DiffChoices(changes, DiffTexts)
    /\ hashOrder \in Orders(other_cats(changes))

ApplySynthesize ==
    /\ pc \in {"input", "synthesized"}
    /\ message' = generate_smart_message(changes, diff_result(diffs.notebooks),
                                         diff_result(diffs.python), hashOrder)
    /\ prevMessage' = message
    /\ invocations' = IF invocations = 0 THEN 1 ELSE 2
    /\ diffed' = diffed_paths(diff_calls(changes))
    /\ analysis' = returned_indicators(changes, diff_result(diffs.notebooks),
                                       diff_result(diffs.python))
    /\ pc' = "synthesized"
    /\ UNCHANGED <<args, commit_count, changes, tree, diffs, head, pushed, stdout, calls,
                   printed, exitCode, sigints, hashOrder, cycle, edits, file_category>>

\* the program is run a second time: the new process has its own string hashes, so
\* its own order of iterating other_cats
NewProcess ==
    /\ pc = "synthesized"
    /\ invocations = 1
    /\ hashOrder' \in Orders(Range(hashOrder))
    /\ UNCHANGED <<pc, args, commit_count, changes, message, tree, diffs, head, pushed,
                   stdout, calls, printed, exitCode, sigints, cycle, invocations,
                   prevMessage, edits, file_category, diffed, analysis>>

NextSynth ==
    \/ ApplySynthesize
    \/ NewProcess

SpecSynth == InitSynth /\ [][NextSynth]_vars

\* the inputs of generate_smart_message drawn from the status outputs `trees` and the
\* diff texts `texts`
SynthInputs(trees, texts) ==
    /\ Idle
    /\ pc = "input"
    /\ tree \in trees
    /\ stdout = git_status(tree)
    /\ changes = collected(tree)
    /\ calls = <<call("status", TRUE)>>
    /\ diffs \in DiffChoices(changes, texts)
    /\ hashOrder \in Orders(other_cats(changes))

(***************************************************************************)
(* generate_smart_message on data, model and documentation files: every    *)
(* ChangeSet of at most MaxFiles entries over LabelPool.                   *)
(***************************************************************************)
LabelPool == << <<"d","a","t","a","/","d",".","c","s","v">>, <<"e",".","j","s","o","n">>, <<"k",".","p","t">>, <<"m",".","h","5">>, <<"n","o","t","e","s",".","m","d">>, <<"r",".","t","x","t">> >>

InitLabels == SynthInputs(Trees(LabelPool, SynthCodes, MaxFiles), {DiffEmpty})

SpecLabels == InitLabels /\ [][ApplySynthesize]_vars

(***************************************************************************)
(* generate_smart_message and the order of the paths: every status output  *)
(* of at most MaxOrdered entries over OrderPool, its lines in any order.   *)
(***************************************************************************)
OrderPool == << <<"a",".","p","y">>, <<"b",".","p","y">>, <<"c",".","p","y">>, <<"n",".","i","p","y","n","b">>, <<"w",".","j","s">> >>

OrderCodes == {<<"M","M">>, Untracked}

\* the status outputs of k entries over pool, in every order of the paths
OrderedTrees(pool, codes, k) ==
    {[i \in 1..k |-> entry(c[i], pool[o[i]])] :
        o \in {f \in [1..k -> 1..Len(pool)] : \A i, j \in 1..k : f[i] = f[j] => i = j},
        c \in [1..k -> codes]}

InitOrder ==
    SynthInputs(UNION {OrderedTrees(OrderPool, OrderCodes, k) : k \in 0..MaxOrdered},
                {DiffEmpty})

SpecOrder == InitOrder /\ [][ApplySynthesize]_vars

(***************************************************************************)
(* generate_smart_message on several notebooks and code files: every       *)
(* ChangeSet of at most MaxTouched entries over PartsPool.                 *)
(***************************************************************************)
PartsPool ==
    << <<"a",".","p","y">>, <<"b",".","p","y">>, <<"c",".","p","y">>, <<"d",".","p","y">>, <<"j",".","i","p","y","n","b">>, <<"k",".","i","p","y","n","b">>, <<"m",".","i","p","y","n","b">>,
       <<"n",".","i","p","y","n","b">> >>

PartsCodes == {<<"M","M">>, Untracked}

InitParts == SynthInputs(Trees(PartsPool, PartsCodes, MaxTouched), {DiffEmpty, DiffTraining})

SpecParts == InitParts /\ [][ApplySynthesize]_vars

(***************************************************************************)
(* generate_smart_message on files of several categories: every ChangeSet  *)
(* of at most MaxTouched entries over ComposePool, one file per category.  *)
(***************************************************************************)
ComposePool == << <<"a",".","p","y">>, <<"d",".","c","s","v">>, <<"k",".","p","t">>, <<"n",".","i","p","y","n","b">>, <<"n","o","t","e","s",".","m","d">>, <<"w",".","j","s">> >>

ComposeCodes == {<<"M","M">>, <<"A"," ">>, <<"D"," ">>}

InitCompose == SynthInputs(Trees(ComposePool, ComposeCodes, MaxTouched), {DiffEmpty})

SpecCompose == InitCompose /\ [][ApplySynthesize]_vars

(***************************************************************************)
(* generate_smart_message on files of the categories without a part of     *)
(* their own: every ChangeSet of at most MaxFiles untracked entries over   *)
(* RemainingPool, the set other_cats iterated in any order.                *)
(***************************************************************************)
RemainingPool ==
    << <<"M","a","k","e","f","i","l","e">>, <<"a",".","p","y">>, <<"c",".","y","a","m","l">>, <<"p",".","p","n","g">>, <<"q",".","s","q","l">>, <<"w",".","j","s">>, <<"x",".","x","y","z">> >>

InitRemaining == SynthInputs(Trees(RemainingPool, {Untracked}, MaxFiles), {DiffEmpty})

SpecRemaining == InitRemaining /\ [][ApplySynthesize]_vars

(***************************************************************************)
(* The analysers on a modified notebook, a modified code file or both,     *)
(* each with a diff text of AnalyseTexts; the git diff call prints the     *)
(* text, fails, or is interrupted.                                         *)
(***************************************************************************)
DiffPlot == <<"-","-","-"," ","a","/","f","\n","+","+","+"," ","b","/","f","\n","+","P","L","T",".","p","l","o","t","(","x",")","\n">>

DiffTrain == <<"-","-","-"," ","a","/","f","\n","+","+","+"," ","b","/","f","\n","+","t","r","a","i","n","(","x",")","\n">>

DiffImport == <<"-","-","-"," ","a","/","f","\n","+","+","+"," ","b","/","f","\n","+","i","m","p","o","r","t"," ","o","s","\n">>

DiffReadCsv == <<"-","-","-"," ","a","/","f","\n","+","+","+"," ","b","/","f","\n","+","r","e","a","d","_","c","s","v","(","f",")","\n">>

DiffClean == <<"-","-","-"," ","a","/","f","\n","+","+","+"," ","b","/","f","\n","+","d","f"," ","="," ","c","l","e","a","n","(","d","f",")","\n">>

DiffFeature == <<"-","-","-"," ","a","/","f","\n","+","+","+"," ","b","/","f","\n","+","f","e","a","t","u","r","e"," ","="," ","1","\n">>

DiffMetric == <<"-","-","-"," ","a","/","f","\n","+","+","+"," ","b","/","f","\n","+","m","e","t","r","i","c"," ","="," ","2","\n">>

DiffPipeline == <<"-","-","-"," ","a","/","f","\n","+","+","+"," ","b","/","f","\n","+","i","m","p","o","r","t"," ","s","e","a","b","o","r","n","\n","+","m","o","d","e","l",".","f","i","t","(","X",")","\n","+","d","f"," ","="," ","r","e","a","d","_","c","s","v","(","f",")",".","d","r","o","p","n","a","(",")","\n">>

DiffRemovedDef == <<"-","-","-"," ","a","/","f","\n","+","+","+"," ","b","/","f","\n","-","d","e","f"," ","o","l","d","(",")",":","\n","-"," "," "," "," ","p","a","s","s","\n","-","x"," ","="," ","1","\n">>

DiffClassFix == <<"-","-","-"," ","a","/","f","\n","+","+","+"," ","b","/","f","\n","+","c","l","a","s","s"," ","A",":","\n","+","d","e","f"," ","f","(",")",":","\n","+","i","m","p","o","r","t"," ","r","e","\n","+","#"," ","f","i","x"," ","b","u","g","\n">>

DiffBalanced == <<"-","-","-"," ","a","/","f","\n","+","+","+"," ","b","/","f","\n","+","x"," ","="," ","1","\n","+","y"," ","="," ","2","\n","-","z"," ","="," ","3","\n">>

DiffRule == <<"-","-","-"," ","a","/","f","\n","+","+","+"," ","b","/","f","\n","+","x"," ","="," ","1","\n","+","y"," ","="," ","2","\n","+","z"," ","="," ","3","\n","-","-","-","-","-","\n","-","w"," ","="," ","0","\n">>

\* a change of the file mode of a notebook named import: no line is added or removed
DiffMode ==
    <<"d","i","f","f"," ","-","-","g","i","t"," ","a","/","i","m","p","o","r","t",".","i","p","y","n","b"," ","b","/","i","m","p","o","r","t",".","i","p","y","n","b","\n","o","l","d"," ","m","o","d","e"," ","1","0","0","6","4","4","\n","n","e","w"," ","m","o","d","e"," ","1","0","0","7","5","5","\n">>

AnalyseTexts ==
    {DiffEmpty, DiffTraining, DiffFunction, DiffPlain, DiffPlot, DiffTrain, DiffImport, DiffReadCsv, DiffClean, DiffFeature, DiffMetric, DiffPipeline, DiffRemovedDef, DiffClassFix, DiffBalanced, DiffRule, DiffMode}

AnalysePool == << <<"a",".","p","y">>, <<"n",".","i","p","y","n","b">> >>

InitAnalyse == SynthInputs(Trees(AnalysePool, {<<"M","M">>}, 2) \ {<<>>}, AnalyseTexts)

\* generate_smart_message with the outcomes of its git diff calls
ApplyAnalyse ==
    /\ pc = "input"
    /\ \E outcome \in [{"notebooks", "python"} -> DiffOutcomes] :
         LET dcalls == diff_calls(changes)
             called == {dcalls[i].category : i \in 1..Len(dcalls)}
             nbResult == outcome_result(outcome["notebooks"], diffs.notebooks)
             pyResult == outcome_result(outcome["python"], diffs.python)
         IN  /\ \A c \in {"notebooks", "python"} \ called : outcome[c] = "ok"
             /\ message' = generate_smart_message(changes, nbResult, pyResult, hashOrder)
             /\ analysis' = returned_indicators(changes, nbResult, pyResult)
             /\ calls' = calls \o diff_call_log(dcalls, outcome)
             /\ diffed' = diffed_paths(dcalls)
             /\ sigints' = sigints \o swallowed_sigints(dcalls, outcome)
    /\ prevMessage' = message
    /\ invocations' = 1
    /\ pc' = "synthesized"
    /\ UNCHANGED <<args, commit_count, changes, tree, diffs, head, pushed, stdout, printed,
                   exitCode, hashOrder, cycle, edits, file_category>>

SpecAnalyse == InitAnalyse /\ [][ApplyAnalyse]_vars

(***************************************************************************)
(* get_file_category as a function of the path: every path made of a       *)
(* directory, a stem and an extension of the sets below.                   *)
(***************************************************************************)
ClassifyDirs == { <<>>, <<"d","/">>, <<"v","1",".","p","y","/">> }

ClassifyStems == { <<"a">>, <<".","b">>, <<"a",".","c","s","v">> }

ClassifyExtensions ==
    { <<>>, <<".">>, <<".","p","y">>, <<".","P","Y">>, <<".","P","y">>, <<".","i","p","y","n","b">>, <<".","C","S","V">>, <<".","h","5">>, <<".","M","d">>,
      <<".","y","a","m","l">>, <<".","J","S">>, <<".","p","n","g">>, <<".","s","q","l">>, <<".","x","y","z">>, <<".","p","y","c">>, <<".","p">> }

ClassifyPaths ==
    {d \o s \o e : d \in ClassifyDirs, s \in ClassifyStems, e \in ClassifyExtensions}

InitClassify ==
    /\ Idle
    /\ pc = "input"
    /\ tree \in {<<entry(Untracked, p)>> : p \in ClassifyPaths}
    /\ diffs = [notebooks |-> DiffEmpty, python |-> DiffEmpty]
    /\ hashOrder = <<>>
    /\ stdout = <<>>
    /\ calls = <<>>
    /\ changes = NoChanges

ApplyClassify ==
    /\ pc \in {"input", "classified"}
    /\ file_category' = get_file_category(tree[1].path)
    /\ pc' = "classified"
    /\ UNCHANGED <<args, commit_count, changes, message, tree, diffs, head, pushed, stdout,
                   calls, printed, exitCode, sigints, hashOrder, cycle, invocations,
                   prevMessage, edits, diffed, analysis>>

SpecClassify == InitClassify /\ [][ApplyClassify]_vars

(***************************************************************************)
(* The claims.                                                             *)
(***************************************************************************)
StatusSucceeded == calls # <<>> /\ calls[1] = call("status", TRUE)

\* the places (bucket, index) of the ChangeSet that hold the path p
places(ch, p) ==
    {bk \in UNION {{<<b, k>> : k \in 1..Len(ch[b])} : b \in Buckets} : ch[bk[1]][bk[2]] = p}

\* C1: after get_changed_files every path that git status reported is in exactly one
\* of the buckets added / modified / deleted / untracked: it is in no two buckets and
\* it is missing from none.
C1_ReportedPathInExactlyOneBucket ==
    (pc = "collected" /\ StatusSucceeded)
        => \A i \in 1..Len(tree) : Cardinality(places(changes, tree[i].path)) = 1

\* the paths git status reported on the lines whose status code belongs to bucket b
RECURSIVE reported_in(_, _)
reported_in(entries, b) ==
    IF entries = <<>> THEN <<>>
    ELSE (IF line_bucket(porcelain_line(Head(entries))) = b
          THEN <<Head(entries).path>> ELSE <<>>)
         \o reported_in(Tail(entries), b)

\* C2: the path recorded for a status line is the path reported on that line (the new
\* path of a rename), for every line position and every status code: each bucket
\* holds exactly the reported paths of its lines, in line order.
C2_RecordedPathIsReportedPath ==
    (pc = "collected" /\ StatusSucceeded)
        => \A b \in Buckets : changes[b] = reported_in(tree, b)

\* C3: generate_smart_message returns None for a ChangeSet whose buckets are all
\* empty and a non-empty message for every other ChangeSet.
C3_MessageIffChanges ==
    pc = "synthesized"
        => /\ total_changes(changes) = 0 => message = NoMessage
           /\ total_changes(changes) > 0 => message # NoMessage /\ Len(message) > 0

C3_Witness ==
    /\ pc = "synthesized"
    /\ changes = [NoChanges EXCEPT !.untracked = << <<"n","o","t","e","s",".","m","d">> >>]
    /\ message = "Add docs: notes.md"

\* C4: for a fixed ChangeSet and fixed diff texts every invocation of
\* generate_smart_message, in the same run or in another run of the program, returns
\* the same message.
C4_SameMessageInEveryRun == invocations = 2 => message = prevMessage

MutatingCalls == {"stage", "commit", "push"}

IsMutation(c) == c.op \in MutatingCalls

\* C5: in dry-run mode, whatever the cycle and the ChangeSet, the calls of a cycle
\* are status and diff reads only, nothing is committed or pushed, and commit_count
\* stays 0.
C5_DryRunNeverMutates ==
    args.dry_run
        => /\ \A i \in 1..Len(calls) : calls[i].op \in {"status", "diff"}
           /\ commit_count = 0
           /\ head = <<>>
           /\ pushed = 0

C5_Witness ==
    /\ args.dry_run
    /\ cycle >= 2
    /\ pc = "sleep"
    /\ \E i \in 1..Len(printed) : printed[i] = line("would_commit", message)

\* C6: when the push that follows a successful commit fails, the commit stays in the
\* repository, commit_count still counts it, the cycle has printed "Committed" and
\* nothing that reports a failed commit, and the loop goes on (to the sleep, or in
\* once mode to the normal exit).
C6_PushFailureKeepsCommit ==
    [][(pc = "push" /\ calls' = Append(calls, call("push", FALSE)))
          => /\ head' = head
             /\ head # <<>>
             /\ head[Len(head)].message = message
             /\ commit_count' = commit_count
             /\ commit_count = Len(head)
             /\ tree' = tree
             /\ printed'[Len(printed') - 1] = line("committed", message)
             /\ \A i \in 1..Len(printed') : printed'[i] # line("info", "No changes to commit")
             /\ pc' = IF args.once THEN "done" ELSE "sleep"
             /\ args.once => exitCode' = 0]_vars

C6_Witness ==
    /\ pc = "collect"
    /\ cycle >= 2
    /\ calls[Len(calls)] = call("push", FALSE)
    /\ commit_count = 1
    /\ Len(head) = 1

\* C7: in a live cycle the calls that change the repository are, in this order, at
\* most one stageAll, one commit and one push; commit is called only after a
\* successful stageAll of the cycle, push only with --push and after a successful
\* commit of the cycle.
C7_StageCommitPushInOrder ==
    LET m == SelectSeq(calls, IsMutation)
    IN  /\ Len(m) <= 3
        /\ Len(m) >= 1 => m[1].op = "stage" /\ ~args.dry_run
        /\ Len(m) >= 2 => m[1].ok /\ m[2].op = "commit"
        /\ Len(m) >= 3 => m[2].ok /\ m[3].op = "push" /\ args.push

C7_Witness ==
    SelectSeq(calls, IsMutation) = <<call("stage", TRUE), call("commit", TRUE), call("push", TRUE)>>

LastCallFailed(op) == calls # <<>> /\ calls[Len(calls)] = call(op, FALSE)

IsErrorLine(l) == l.what = "error"

\* C8: in loop mode no outcome of a cycle ends the loop.  A step that leaves the loop
\* is the delivery of an interrupt; a failed status, stageAll, commit or push call is
\* followed by the sleep, a failed diff call by the rest of the cycle; "nothing to
\* commit" prints no error; and the sleep is followed by the next collection.
C8_CycleFailuresKeepLoop ==
    [][~args.once
          => /\ (pc \in LoopPositions /\ pc' = "done")
                    => sigints' = Append(sigints, pc)
             /\ (calls' # calls /\ \E op \in {"status", "stage", "commit", "push"} :
                                      calls'[Len(calls')] = call(op, FALSE))
                    => pc' = "sleep"
             /\ (calls' # calls /\ calls'[Len(calls')] = call("diff", FALSE))
                    => pc' \in {"stage", "dryrun"}
             /\ (pc = "commit" /\ pc' # "done" /\ staged_paths(tree) = <<>>)
                    => /\ pc' = "sleep"
                       /\ SelectSeq(printed', IsErrorLine) = SelectSeq(printed, IsErrorLine)
             /\ (pc = "sleep" /\ pc' \notin {"sleep", "done"}) => pc' = "collect"]_vars

C8_Witness ==
    /\ ~args.once
    /\ pc = "collect"
    /\ cycle >= 2
    /\ LastCallFailed("commit")

\* C9: an interrupt delivered while the loop sleeps or at any point of a cycle ends
\* the loop at once: the final commit count is printed and the process exits with
\* code 0, without a further step of the cycle.
C9_InterruptEndsLoopAtOnce ==
    sigints # <<>>
        => /\ pc = "done"
           /\ exitCode = 0
           /\ printed # <<>>
           /\ printed[Len(printed)] = line("stopped", ToString(commit_count))

IsStatusCall(c) == c.op = "status"

Position(p) ==
    CASE p = "start" -> 0
      [] p = "collect" -> 1
      [] p = "synth" -> 2
      [] p \in {"dryrun", "stage"} -> 3
      [] p = "commit" -> 4
      [] p = "push" -> 5
      [] p = "sleep" -> 6
      [] OTHER -> 7

\* C10: in once mode the program makes exactly one collection pass and ends normally
\* whatever the pass did: it never sleeps, every step moves it forward, when it has
\* ended without an interrupt it has called status exactly once and exits with
\* code 0, and once the pass has begun the program does end.
C10_OnceModeSinglePass ==
    /\ [](args.once
            => /\ pc # "sleep"
               /\ cycle <= 1
               /\ Len(SelectSeq(calls, IsStatusCall)) <= 1
               /\ (pc = "done" /\ cycle = 1 /\ sigints = <<>>)
                    => Len(SelectSeq(calls, IsStatusCall)) = 1 /\ exitCode = 0)
    /\ [][(args.once /\ pc' # pc) => Position(pc') > Position(pc)]_vars
    /\ (args.once /\ pc = "collect") ~> (pc = "done" /\ exitCode = 0)

C10_Witness ==
    /\ args.once
    /\ pc = "done"
    /\ exitCode = 0
    /\ cycle = 1
    /\ commit_count = 1
    /\ printed[Len(printed)] = line("committed", message)

\* C11: with no edit of the working tree during a cycle, the paths a cycle collected
\* are all in the one commit the cycle makes, or none of them is committed: only the
\* commit step adds to the history, it adds one commit that holds every collected
\* path, and the call before it is the cycle's successful stageAll (no status read
\* lies between staging and committing).
C11_CollectedAllOrNothing ==
    [][/\ head' # head => pc = "commit"
       /\ pc = "commit"
            => \/ head' = head
               \/ /\ calls[Len(calls)] = call("stage", TRUE)
                  /\ Len(head') = Len(head) + 1
                  /\ Range(all_files(changes)) \subseteq Range(head'[Len(head')].files)]_vars

\* a cycle has run to its end (not cut short by an interrupt)
CycleEnded ==
    /\ cycle >= 1
    /\ \/ pc = "sleep"
       \/ /\ pc = "done"
          /\ args.once
          /\ printed = <<>> \/ printed[Len(printed)].what # "stopped"

\* the status or the stageAll call of the cycle failed
GatewayFailed ==
    \E i \in 1..Len(calls) : calls[i] \in {call("status", FALSE), call("stage", FALSE)}

IsNoChangesLine(l) == l.what = "watching" \/ l = line("info", "No changes to commit")

IsOutcomeLine(l) == l.what \in {"committed", "would_commit", "error"} \/ IsNoChangesLine(l)

\* C12: every cycle, in every mode, reports its outcome (committed, no changes or
\* failure; in dry-run mode what it would commit); a cycle without changes is
\* reported in once mode too, and a cycle whose status, stageAll or commit call
\* failed (a commit that finds nothing staged is no failure) is reported as a failure
\* and not as "no changes".
C12_EveryCycleReportsItsOutcome ==
    /\ [](CycleEnded
            => /\ SelectSeq(printed, IsOutcomeLine) # <<>>
               /\ GatewayFailed
                    => /\ SelectSeq(printed, IsErrorLine) # <<>>
                       /\ SelectSeq(printed, IsNoChangesLine) = <<>>)
    /\ [][(/\ pc = "commit"
           /\ staged_paths(tree) # <<>>
           /\ calls' = Append(calls, call("commit", FALSE)))
              => /\ SelectSeq(printed', IsErrorLine) # <<>>
                 /\ SelectSeq(printed', IsNoChangesLine) = <<>>]_vars

\* the messages generate_smart_message may return for the ChangeSet and the diff texts
\* of the state when the action phrase is `action`, one per iteration order
MessagesWithAction(action) ==
    {compose_message(action,
                     message_parts(changes, categories_of(changes),
                                   diff_result(diffs.notebooks), diff_result(diffs.python), o),
                     Len(all_files(changes))) : o \in Orders(other_cats(changes))}

\* the action phrase by the non-empty buckets: adds (added or untracked), modified, deleted
PhraseTable ==
    [adds \in BOOLEAN, mods \in BOOLEAN, dels \in BOOLEAN |->
        CASE adds /\ mods -> "Add and update"
          [] adds /\ ~mods -> "Add"
          [] ~adds /\ dels /\ mods -> "Update and remove"
          [] ~adds /\ dels /\ ~mods -> "Remove"
          [] OTHER -> "Update"]

\* C13: the message begins with the action phrase the non-empty buckets select: with
\* added or untracked paths "Add and update" if there are modified paths and "Add" if
\* not, whether or not paths are deleted; else with deleted paths "Update and remove"
\* or "Remove"; else "Update".
C13_ActionPhraseByBuckets ==
    (pc = "synthesized" /\ total_changes(changes) > 0)
        => message \in MessagesWithAction(
               PhraseTable[changes.added # <<>> \/ changes.untracked # <<>>,
                           changes.modified # <<>>,
                           changes.deleted # <<>>])

C13_Witness ==
    /\ pc = "synthesized"
    /\ changes = [NoChanges EXCEPT !.added = << <<"a",".","p","y">> >>, !.deleted = << <<"n","o","t","e","s",".","m","d">> >>]
    /\ message = "Add a.py and docs: notes.md"

\* the ChangeSet is one modified code file
OneModifiedCodeFile ==
    /\ changes = [NoChanges EXCEPT !.modified = changes.modified]
    /\ Len(changes.modified) = 1
    /\ get_file_category(changes.modified[1]) = "python"

\* C14 as claimed: one modified code file whose diff text contains "model.fit" and
\* "accuracy_score" gives "Update <filename>: model training, evaluation".
C14_CodeFileTrainingMessage ==
    (/\ pc = "synthesized"
     /\ OneModifiedCodeFile
     /\ Contains(diffs.python, <<"m","o","d","e","l",".","f","i","t">>)
     /\ Contains(diffs.python, <<"a","c","c","u","r","a","c","y","_","s","c","o","r","e">>))
        => message = "Update " \o Str(path_name(changes.modified[1]))
                        \o ": model training, evaluation"

\* the lines a diff text adds (marker "+") or removes (marker "-"), its file header
\* lines not counted
changed_lines(diff, marker) ==
    count(diff, <<"\n", marker>>) - count(diff, <<"\n", marker, marker, marker>>)

\* the label of a code diff: the first two of the marker families that hit, or, when
\* none hits, the size label
CodeLabel(diff) ==
    LET hits == (IF Contains(diff, <<"d","e","f"," ">>) /\ Contains(diff, <<"+","d","e","f"," ">>)
                 THEN <<"new functions">> ELSE <<>>)
                \o (IF Contains(diff, <<"c","l","a","s","s"," ">>) /\ Contains(diff, <<"+","c","l","a","s","s"," ">>)
                    THEN <<"new classes">> ELSE <<>>)
                \o (IF Contains(diff, <<"i","m","p","o","r","t"," ">>) /\ Contains(diff, <<"+","i","m","p","o","r","t"," ">>)
                    THEN <<"imports">> ELSE <<>>)
                \o (IF Contains(lower(diff), <<"f","i","x">>) \/ Contains(lower(diff), <<"b","u","g">>)
                    THEN <<"bug fixes">> ELSE <<>>)
    IN  IF hits # <<>> THEN join(", ", Take(hits, 2))
        ELSE IF changed_lines(diff, "+") > 2 * changed_lines(diff, "-") THEN "new code"
        ELSE IF changed_lines(diff, "-") > 2 * changed_lines(diff, "+") THEN "code cleanup"
        ELSE "code changes"

\* C14, amended: one modified code file gives "Update <stem>.py: <label>", the label
\* being the first two hits of the code families (new functions, new classes, imports,
\* bug fixes) or else the size label; the training and evaluation keywords are not
\* looked for in code files, so a diff that only adds lines with "model.fit" and
\* "accuracy_score" gives "Update <stem>.py: new code".
C14_CodeFileMessage ==
    (pc = "synthesized" /\ OneModifiedCodeFile)
        => /\ message = "Update " \o Str(path_stem(changes.modified[1])) \o ".py: "
                           \o CodeLabel(diffs.python)
           /\ diffs.python = DiffTraining => CodeLabel(diffs.python) = "new code"

C14_Witness ==
    /\ pc = "synthesized"
    /\ OneModifiedCodeFile
    /\ Contains(diffs.python, <<"m","o","d","e","l",".","f","i","t">>)
    /\ Contains(diffs.python, <<"a","c","c","u","r","a","c","y","_","s","c","o","r","e">>)
    /\ message = "Update a.py: new code"

\* the files of the ChangeSet that belong to the category cat, in all_files order
files_in(ch, cat) == SelectSeq(all_files(ch), LAMBDA f : get_file_category(f) = cat)

\* "<label>: <filename>" for one file, "<n> <plural>" for more, nothing for none
LabelPart(files, label, plural) ==
    CASE Len(files) = 0 -> <<>>
      [] Len(files) = 1 -> <<label \o ": " \o Str(path_name(files[1]))>>
      [] OTHER -> <<ToString(Len(files)) \o " " \o plural>>

\* C15: each of the categories data, models and docs gives the part
\* "<label>: <filename>" (with the extension) when exactly one file of it is touched,
\* in whatever bucket, and the count summary when two or more are; so the ChangeSet
\* with only the untracked notes.md gives "Add docs: notes.md".
C15_LabelledParts ==
    (/\ pc = "synthesized"
     /\ total_changes(changes) > 0
     /\ \A i \in 1..Len(all_files(changes)) :
            get_file_category(all_files(changes)[i]) \in {"data", "models", "docs"})
        => message = compose_message(action_phrase(changes),
                         LabelPart(files_in(changes, "data"), "data", "data files")
                             \o LabelPart(files_in(changes, "models"), "model", "model files")
                             \o LabelPart(files_in(changes, "docs"), "docs",
                                          "documentation files"),
                         Len(all_files(changes)))

C15_Witness ==
    /\ pc = "synthesized"
    /\ tree = <<entry(Untracked, <<"n","o","t","e","s",".","m","d">>)>>
    /\ files_in(changes, "docs") = << <<"n","o","t","e","s",".","m","d">> >>
    /\ message = "Add docs: notes.md"

\* the part of the category cat, from the files of the ChangeSet that belong to it
PartOf(cat) ==
    CASE cat = "notebooks"
           -> notebook_parts(changes, files_in(changes, cat), diff_result(diffs.notebooks))
      [] cat = "python"
           -> python_parts(changes, files_in(changes, cat), diff_result(diffs.python))
      [] cat = "data" -> labelled_parts(files_in(changes, cat), "data", "data files")
      [] cat = "models" -> labelled_parts(files_in(changes, cat), "model", "model files")
      [] cat = "docs"
           -> labelled_parts(files_in(changes, cat), "docs", "documentation files")
      [] OTHER -> other_parts(categories_of(changes),
                              IF files_in(changes, cat) = <<>> THEN <<>> ELSE <<cat>>)

RECURSIVE PartsInOrder(_)
PartsInOrder(cats) ==
    IF cats = <<>> THEN <<>> ELSE PartOf(Head(cats)) \o PartsInOrder(Tail(cats))

\* the lines of the status output are three modified code files and one modified
\* notebook, in some order
ThreeCodeFilesAndANotebook ==
    /\ Len(tree) = 4
    /\ \A i \in 1..4 : tree[i].code = <<"M","M">>
    /\ Len(files_in(changes, "python")) = 3
    /\ files_in(changes, "notebooks") = << <<"n",".","i","p","y","n","b">> >>

\* C16: the parts of the message are those of the categories notebooks, code, data,
\* models, docs and then the remaining ones, in this order, whatever the order of the
\* paths in the status output and in the buckets; three modified code files and one
\* modified notebook give the notebook part, then the summary of the code files, and
\* no "(+k more)" as there are only two parts.
C16_PartsInCategoryOrder ==
    (pc = "synthesized" /\ total_changes(changes) > 0 /\ Cardinality(other_cats(changes)) <= 1)
        => /\ message = compose_message(
                            action_phrase(changes),
                            PartsInOrder(<<"notebooks", "python", "data", "models", "docs",
                                           "config", "web", "images", "sql", "other">>),
                            Len(all_files(changes)))
           /\ ThreeCodeFilesAndANotebook
                => message = "Update n: notebook updates and Python: "
                                \o join(", ", stems(files_in(changes, "python")))

C16_Witness ==
    /\ pc = "synthesized"
    /\ tree = <<entry(<<"M","M">>, <<"c",".","p","y">>), entry(<<"M","M">>, <<"n",".","i","p","y","n","b">>),
                entry(<<"M","M">>, <<"a",".","p","y">>), entry(<<"M","M">>, <<"b",".","p","y">>)>>
    /\ message = "Update n: notebook updates and Python: c, a, b"

Categories ==
    {"notebooks", "python", "data", "models", "docs", "config", "web", "images", "sql",
     "other"}

\* the rows of the table that list the extension ext
RowsOf(ext) == {i \in 1..Len(FILE_CATEGORIES) : ext \in FILE_CATEGORIES[i].extensions}

\* C17: get_file_category returns a category for every path; the category is that of
\* the table row listing the path's extension in lower case, and `other` when no row
\* lists it (also when the path has no extension); paths whose extensions agree up to
\* case get the same category, whatever their directories and stems.
C17_CategoryByExtension ==
    pc = "classified"
        => LET ext == lower(path_suffix(tree[1].path))
           IN  /\ file_category \in Categories
               /\ RowsOf(ext) = {} => file_category = "other"
               /\ \A i \in RowsOf(ext) : file_category = FILE_CATEGORIES[i].category
               /\ \A q \in ClassifyPaths :
                      lower(path_suffix(q)) = ext => get_file_category(q) = file_category

C17_Witness ==
    /\ pc = "classified"
    /\ tree[1].path = <<"v","1",".","p","y","/","a",".","c","s","v",".","P","Y">>
    /\ file_category = "python"

\* the bucket the rule of the status codes gives: untracked, else a delete marker in
\* either column, else an add marker in either column, else modified
RuleBucket(code) ==
    IF code = <<"?","?">> THEN "untracked"
    ELSE IF code[1] = "D" \/ code[2] = "D" THEN "deleted"
    ELSE IF code[1] = "A" \/ code[2] = "A" THEN "added"
    ELSE "modified"

\* the index, in its bucket, of the i-th status line
RankInBucket(entries, i) ==
    Cardinality({j \in 1..i : RuleBucket(entries[j].code) = RuleBucket(entries[i].code)})

\* C18: each status line goes to the bucket of the first matching rule: untracked
\* marker, else delete marker in either column, else add marker in either column, else
\* modified; the lines of a bucket keep their order and no line goes anywhere else.
\* (The recorded path of the first line may lack its first character: C2.)
C18_BucketByFirstMatchingRule ==
    (pc = "collected" /\ StatusSucceeded)
        => /\ total_changes(changes) = Len(tree)
           /\ \A i \in 1..Len(tree) :
                  LET b == RuleBucket(tree[i].code)
                      k == RankInBucket(tree, i)
                  IN  /\ k <= Len(changes[b])
                      /\ changes[b][k] \in {tree[i].path} \cup
                                           (IF i = 1 THEN {Tail(tree[i].path)} ELSE {})

\* an add-and-delete line goes to deleted, a copy and a conflict to modified
C18_Witness ==
    /\ pc = "collected"
    /\ StatusSucceeded
    /\ tree = <<entry(<<"A","D">>, <<"a","b",".","p","y">>), entry(<<"C"," ">>, <<"b",".","p","y">>),
                entry(<<"U","U">>, <<"n",".","i","p","y","n","b">>)>>
    /\ changes = [added |-> <<>>, modified |-> <<<<"b",".","p","y">>, <<"n",".","i","p","y","n","b">>>>,
                  deleted |-> <<<<"a","b",".","p","y">>>>, untracked |-> <<>>]

\* the parts of the categories after notebooks and code
LaterParts ==
    PartsInOrder(<<"data", "models", "docs", "config", "web", "images", "sql", "other">>)

\* the part of the code files: the single-file form for one file, the list of the
\* stems for two or three, the count summary for more
CodePart ==
    LET py_files == files_in(changes, "python")
    IN  CASE Len(py_files) = 0 -> <<>>
          [] Len(py_files) = 1 ->
               IF py_files[1] \in Range(changes.modified)
               THEN <<Str(path_stem(py_files[1])) \o ".py: " \o CodeLabel(diffs.python)>>
               ELSE <<Str(path_stem(py_files[1])) \o ".py">>
          [] Len(py_files) \in 2..3 -> <<"Python: " \o join(", ", stems(py_files))>>
          [] OTHER -> <<ToString(Len(py_files)) \o " Python files">>

\* the single-file form of the notebook part
OneNotebookPart(notebook) ==
    IF notebook \in Range(changes.modified)
    THEN <<Str(path_stem(notebook)) \o ": "
             \o join(", ", Take(analyze_notebook_changes(diff_result(diffs.notebooks)), 2))>>
    ELSE <<Str(path_stem(notebook)) \o " notebook">>

\* the part of the notebooks when two or three of them are listed by their stems, with
\* or without a label before the list
NotebookStemLists ==
    {<<join(", ", stems(files_in(changes, "notebooks")))>>,
     <<"Notebooks: " \o join(", ", stems(files_in(changes, "notebooks")))>>,
     <<"notebooks: " \o join(", ", stems(files_in(changes, "notebooks")))>>}

MessageOf(parts) == compose_message(action_phrase(changes), parts, Len(all_files(changes)))

\* C19: for notebooks and for code the part is the single-file form for exactly one
\* touched file, a comma-separated list of the stems for two or three files, and a
\* count summary only for more than three.
C19_StemListForTwoOrThree ==
    (pc = "synthesized" /\ total_changes(changes) > 0)
        => LET notebooks == files_in(changes, "notebooks")
           IN  CASE Len(notebooks) = 0 -> message = MessageOf(CodePart \o LaterParts)
                 [] Len(notebooks) = 1 ->
                      message = MessageOf(OneNotebookPart(notebooks[1]) \o CodePart
                                              \o LaterParts)
                 [] Len(notebooks) \in 2..3 ->
                      \E part \in NotebookStemLists :
                          message = MessageOf(part \o CodePart \o LaterParts)
                 [] OTHER ->
                      message = MessageOf(<<ToString(Len(notebooks)) \o " notebooks">>
                                              \o CodePart \o LaterParts)

\* the part of the notebooks: the single-file form for one notebook, the count summary
\* for two or more
NotebookPart ==
    LET notebooks == files_in(changes, "notebooks")
    IN  CASE Len(notebooks) = 0 -> <<>>
          [] Len(notebooks) = 1 -> OneNotebookPart(notebooks[1])
          [] OTHER -> <<ToString(Len(notebooks)) \o " notebooks">>

\* C19, amended: for code the part is the single-file form for exactly one touched
\* file, "Python: " and the comma-separated list of the stems for two or three files,
\* and the count summary "<n> Python files" only for more than three; for notebooks the
\* part is the single-file form for exactly one touched file and the count summary
\* "<n> notebooks" for two or more.
C19_PartByNumberOfFiles ==
    (pc = "synthesized" /\ total_changes(changes) > 0)
        => message = MessageOf(NotebookPart \o CodePart \o LaterParts)

\* two notebooks and two code files
C19_Witness ==
    /\ pc = "synthesized"
    /\ Len(files_in(changes, "notebooks")) = 2
    /\ files_in(changes, "python") = <<<<"a",".","p","y">>, <<"b",".","p","y">>>>
    /\ message = "Update 2 notebooks and Python: a, b"

\* the parts of the message, in processing order
PartsOfMessage ==
    message_parts(changes, categories_of(changes), diff_result(diffs.notebooks),
                  diff_result(diffs.python), hashOrder)

\* C20: with the parts p1..pn in processing order the message is "<action> <p1>" for
\* n = 1, "<action> <p1> and <p2>" for n = 2 and "<action> <p1>, <p2> (+k more)" with
\* k = n - 2 >= 1 for n >= 3; the message is made of the action, the first two parts and
\* the number of parts only, so the later parts do not appear in it.
C20_MessageFromFirstTwoParts ==
    (pc = "synthesized" /\ total_changes(changes) > 0)
        => LET p == PartsOfMessage
               n == Len(p)
               action == action_phrase(changes)
           IN  /\ n >= 1
               /\ n = 1 => message = action \o " " \o p[1]
               /\ n = 2 => message = action \o " " \o p[1] \o " and " \o p[2]
               /\ n >= 3 => /\ n - 2 >= 1
                            /\ message = action \o " " \o p[1] \o ", " \o p[2] \o " (+"
                                             \o ToString(n - 2) \o " more)"

\* four parts: a notebook, a code file, a data file and a documentation file
C20_Witness ==
    /\ pc = "synthesized"
    /\ Len(PartsOfMessage) = 4
    /\ PartsOfMessage[3] = "data: d.csv"
    /\ PartsOfMessage[4] = "docs: notes.md"
    /\ message = "Update n: notebook updates, a.py: code changes (+2 more)"

\* the form of a sole notebook or code file that names it without indicators
NameForm(cat, f) ==
    IF cat = "notebooks" THEN Str(path_stem(f)) \o " notebook" ELSE Str(path_stem(f)) \o ".py"

\* the file f is the only touched file of the category cat
SoleFileOf(cat, f) == files_in(changes, cat) = <<f>>

\* C21: git diff is called only for a path of the modified bucket that is the only touched
\* file of the notebooks or of the code category, so at most twice in a cycle; an only
\* notebook or code file of another bucket is named without indicators and without a
\* diff call, and no file of another category is diffed.
C21_DiffOnlyForSoleModifiedFile ==
    pc = "synthesized"
        => /\ Len(diffed) <= 2
           /\ \A i \in 1..Len(diffed) :
                  /\ diffed[i] \in Range(changes.modified)
                  /\ get_file_category(diffed[i]) \in {"notebooks", "python"}
                  /\ SoleFileOf(get_file_category(diffed[i]), diffed[i])
           /\ \A f \in Range(all_files(changes)) \ Range(changes.modified) :
                  /\ SoleFileOf("notebooks", f)
                       => /\ f \notin Range(diffed)
                          /\ message = MessageOf(<<NameForm("notebooks", f)>> \o CodePart
                                                     \o LaterParts)
                  /\ SoleFileOf("python", f)
                       => /\ f \notin Range(diffed)
                          /\ message = MessageOf(NotebookPart \o <<NameForm("python", f)>>
                                                     \o LaterParts)

\* an untracked notebook and a modified code file: one diff call, for the code file
C21_Witness ==
    /\ pc = "synthesized"
    /\ changes.untracked = <<<<"n",".","i","p","y","n","b">>>>
    /\ changes.modified = <<<<"a",".","p","y">>>>
    /\ diffed = <<<<"a",".","p","y">>>>
    /\ message = "Add and update n notebook and a.py: code changes"

\* a rule of an analyser: the indicator `label` is given when one of the texts of `any`
\* and every text of `all` occur in the diff text, taken in lower case when `fold`
Rule(label, any, all, fold) == [label |-> label, any |-> any, all |-> all, fold |-> fold]

RuleApplies(rule, diff) ==
    LET text == IF rule.fold THEN lower(diff) ELSE diff
    IN  /\ \E k \in rule.any : Contains(text, k)
        /\ \A k \in rule.all : Contains(text, k)

\* the rules of the notebook analyser, in the order of their declaration
NotebookRules ==
    << Rule("visualizations", {<<"m","a","t","p","l","o","t","l","i","b">>, <<"p","l","t",".">>, <<"s","e","a","b","o","r","n">>}, {}, TRUE),
       Rule("model training", {<<"t","r","a","i","n">>, <<"f","i","t">>, <<"m","o","d","e","l">>}, {}, TRUE),
       Rule("dependencies", {<<"i","m","p","o","r","t">>}, {<<"+">>}, TRUE),
       Rule("data loading", {<<"r","e","a","d","_","c","s","v">>, <<"l","o","a","d">>}, {}, TRUE),
       Rule("data cleaning", {<<"c","l","e","a","n">>, <<"f","i","l","l","n","a">>, <<"d","r","o","p","n","a">>}, {}, TRUE),
       Rule("feature engineering", {<<"f","e","a","t","u","r","e">>, <<"e","n","g","i","n","e","e","r">>}, {}, TRUE),
       Rule("evaluation", {<<"a","c","c","u","r","a","c","y">>, <<"s","c","o","r","e">>, <<"m","e","t","r","i","c">>}, {}, TRUE) >>

\* the rules of the code analyser, in the order of their declaration
CodeRules ==
    << Rule("new functions", {<<"d","e","f"," ">>}, {<<"+","d","e","f"," ">>}, FALSE),
       Rule("new classes", {<<"c","l","a","s","s"," ">>}, {<<"+","c","l","a","s","s"," ">>}, FALSE),
       Rule("imports", {<<"i","m","p","o","r","t"," ">>}, {<<"+","i","m","p","o","r","t"," ">>}, FALSE),
       Rule("bug fixes", {<<"f","i","x">>, <<"b","u","g">>}, {}, TRUE) >>

\* the labels of the rules that apply to the diff text, in the order of the rules
RECURSIVE RuleHits(_, _)
RuleHits(rules, diff) ==
    IF rules = <<>> THEN <<>>
    ELSE (IF RuleApplies(Head(rules), diff) THEN <<Head(rules).label>> ELSE <<>>)
         \o RuleHits(Tail(rules), diff)

\* the size label of a code diff
SizeLabel(diff) ==
    IF changed_lines(diff, "+") > 2 * changed_lines(diff, "-") THEN "new code"
    ELSE IF changed_lines(diff, "-") > 2 * changed_lines(diff, "+") THEN "code cleanup"
    ELSE "code changes"

\* the only file of the category cat is a modified one, so it is analysed
Analysed(cat) ==
    /\ Len(files_in(changes, cat)) = 1
    /\ files_in(changes, cat)[1] \in Range(changes.modified)

\* the diff text the analyser of the category cat got: nothing when the git diff call
\* failed or was interrupted
TextOf(cat) ==
    LET k == CHOOSE i \in 1..Len(diffed) : diffed[i] = files_in(changes, cat)[1]
    IN  IF calls[1 + k].ok THEN diffs[cat] ELSE <<>>

\* the indicators to expect for the category cat: the labels of the rules that apply
\* or, when none does, the fallback label
ExpectedIndicators(cat) ==
    LET hits == RuleHits(IF cat = "notebooks" THEN NotebookRules ELSE CodeRules, TextOf(cat))
    IN  IF hits # <<>> THEN hits
        ELSE IF cat = "notebooks" THEN <<"notebook updates">> ELSE <<SizeLabel(TextOf(cat))>>

\* the part of an analysed file with the indicators shown
AnalysedPart(cat, shown) ==
    IF ~Analysed(cat) THEN <<>>
    ELSE <<Str(path_stem(files_in(changes, cat)[1]))
             \o (IF cat = "notebooks" THEN ": " ELSE ".py: ") \o join(", ", shown)>>

\* C22: for every analysed file (a modified notebook or code file, whatever the diff
\* text, also when it is empty or the git diff call failed) the message shows at least
\* one and at most two indicators, and they are the first of the rules that apply, in
\* the order in which the rules are declared.
C22_FirstTwoIndicators ==
    pc = "synthesized"
        => /\ \A cat \in {"notebooks", "python"} :
                  Analysed(cat)
                      => /\ analysis[cat] = ExpectedIndicators(cat)
                         /\ Len(Take(analysis[cat], 2)) \in 1..2
           /\ message = MessageOf(
                            AnalysedPart("notebooks", Take(ExpectedIndicators("notebooks"), 2))
                                \o AnalysedPart("python", Take(ExpectedIndicators("python"), 2)))

\* a notebook diff to which five rules apply, and a code diff to which four apply
C22_Witness ==
    /\ pc = "synthesized"
    /\ diffs = [notebooks |-> DiffPipeline, python |-> DiffClassFix]
    /\ Len(analysis["notebooks"]) = 5
    /\ Len(analysis["python"]) = 4
    /\ message = "Update n: visualizations, model training and a.py: new functions, new classes"

\* the keyword families of the notebook analyser, each hitting when one of its keywords
\* occurs in the diff text in lower case
NotebookFamilies ==
    [i \in 1..Len(NotebookRules) |-> [NotebookRules[i] EXCEPT !.all = {}]]

\* the families of which the analyser returned the indicator are those of `families`
\* that apply to the notebook's diff text
ReturnedFamilies(families) ==
    \A i \in 1..Len(families) :
        (families[i].label \in Range(analysis["notebooks"]))
            <=> RuleApplies(families[i], TextOf("notebooks"))

\* C23: for a notebook diff each of the seven keyword families hits if and only if one
\* of its keywords occurs, case-insensitively, in the diff text, whatever else the text
\* holds and whatever the other families do.
C23_FamilyHitsIffKeywordOccurs ==
    (pc = "synthesized" /\ Analysed("notebooks")) => ReturnedFamilies(NotebookFamilies)

\* C23, amended: each of the six families visualization, model training, data loading,
\* data cleaning, feature engineering and evaluation hits if and only if one of its
\* keywords occurs, case-insensitively, in the diff text; the dependency family hits if
\* and only if "import" occurs, case-insensitively, and the diff text also holds a "+".
C23_FamilyHitsByItsRule ==
    (pc = "synthesized" /\ Analysed("notebooks"))
        => ReturnedFamilies(NotebookRules)

\* the diff of a notebook whose mode changed names "import" and holds no "+"
C23_Witness ==
    /\ pc = "synthesized"
    /\ Analysed("notebooks")
    /\ diffs.notebooks = DiffMode
    /\ calls[2] = call("diff", TRUE)
    /\ Contains(lower(diffs.notebooks), <<"i","m","p","o","r","t">>)
    /\ analysis["notebooks"] = <<"notebook updates">>

\* the lines of a diff text after its file header ("--- a/..." and "+++ b/...")
HunkLines(diff) ==
    LET lines == split(diff, <<"\n">>)
    IN  IF Len(lines) >= 2 /\ Take(lines[1], 4) = <<"-","-","-"," ">> /\ Take(lines[2], 4) = <<"+","+","+"," ">>
        THEN SubSeq(lines, 3, Len(lines))
        ELSE lines

\* the number of lines the diff inserts (marker "+") or removes (marker "-")
LineCount(diff, marker) ==
    Cardinality({i \in 1..Len(HunkLines(diff)) : Take(HunkLines(diff)[i], 1) = <<marker>>})

\* C24: when none of the four rules of the code analyser applies, exactly one fallback
\* indicator is returned: "new code" iff the inserted lines are more than twice the
\* removed ones, "code cleanup" iff the removed lines are more than twice the inserted
\* ones, "code changes" otherwise (also for an empty diff), the lines of the diff header
\* not counted; when a rule applies no fallback indicator is returned.
C24_FallbackByLineCounts ==
    (pc = "synthesized" /\ Analysed("python"))
        => LET diff == TextOf("python")
               inserted == LineCount(diff, "+")
               removed == LineCount(diff, "-")
           IN  IF RuleHits(CodeRules, diff) = <<>>
               THEN /\ Len(analysis["python"]) = 1
                    /\ analysis["python"][1] \in {"new code", "code cleanup", "code changes"}
                    /\ analysis["python"][1] = "new code" <=> inserted > 2 * removed
                    /\ analysis["python"][1] = "code cleanup" <=> removed > 2 * inserted
               ELSE Range(analysis["python"])
                        \cap {"new code", "code cleanup", "code changes"} = {}

\* C25: a cycle whose ChangeSet has no path, because git status printed nothing or
\* because the status call failed, does not call generate_smart_message and makes no
\* diff, stage, commit or push call: its only gateway call is the status call, and from
\* the collection the cycle goes straight to its end.
C25_EmptyChangeSetEndsCycle ==
    /\ [](total_changes(changes) = 0
            => /\ invocations = 0
               /\ message = NoMessage
               /\ diffed = <<>>
               /\ Len(calls) <= 1
               /\ \A i \in 1..Len(calls) : calls[i].op = "status")
    /\ [][(pc = "collect" /\ total_changes(changes') = 0)
            => /\ pc' \in {"sleep", "done"}
               /\ UNCHANGED <<tree, head, pushed, commit_count>>]_vars

\* the status call failed in a working tree with changes
C25_Witness ==
    /\ pc = "sleep"
    /\ tree # <<>>
    /\ calls = <<call("status", FALSE)>>
    /\ total_changes(changes) = 0
    /\ invocations = 0

\* the loop was left by main's `except KeyboardInterrupt`
StoppedByInterrupt ==
    /\ pc = "done"
    /\ printed # <<>>
    /\ printed[Len(printed)].what = "stopped"

\* C26: an interrupt never makes the loop exit between a completed stage call and the
\* commit of the same cycle: when the loop has been stopped by an interrupt, the last
\* gateway call of its last cycle is not a successful stage call, so the changes of the
\* cycle are not left staged and uncommitted.
C26_NoExitBetweenStageAndCommit ==
    StoppedByInterrupt
        => /\ ~(calls # <<>> /\ calls[Len(calls)] = call("stage", TRUE))
           /\ ~(/\ \E i \in 1..Len(calls) : calls[i] = call("stage", TRUE)
                /\ \A i \in 1..Len(calls) : calls[i].op # "commit"
                /\ staged_paths(tree) # <<>>)

\* the positions of main inside a cycle
CyclePositions == {"collect", "synth", "dryrun", "stage", "commit", "push"}

\* C27: in loop mode every cycle, however it ended, is followed by one suspension
\* before the next status call: a cycle that ends without an interrupt goes to the
\* sleep (never back to the status call), the status call of a later cycle is reached
\* from the sleep only, and while the loop sleeps no gateway call is made.
C27_OneSleepBetweenCycles ==
    /\ [][(~args.once /\ pc \in CyclePositions /\ sigints' = sigints)
            => \/ pc' = "sleep"
               \/ pc' \in CyclePositions /\ Position(pc') > Position(pc)]_vars
    /\ [][pc' = "collect"
            => \/ pc = "start" /\ cycle' = 1
               \/ pc = "sleep" /\ cycle' = cycle + 1]_vars
    /\ [][pc = "sleep"
            => /\ pc' \in {"sleep", "collect", "done"}
               /\ UNCHANGED <<calls, diffed, head, pushed, commit_count, stdout>>]_vars

\* the second cycle has made its status call after the first cycle committed
C27_Witness ==
    /\ ~args.once
    /\ cycle = 2
    /\ pc = "synth"
    /\ commit_count = 1
    /\ calls = <<call("status", TRUE)>>

\* the paths of the working tree t that git add -A and git commit record
Committable(t) == staged_paths(git_add_all(t))

\* nothing is pending any more and every committable path of the working tree t is in
\* a commit
CommittedTree(t) ==
    /\ tree = <<>>
    /\ \A p \in Range(Committable(t)) : \E i \in 1..Len(head) : p \in Range(head[i].files)

\* C28: in the live loop, without interrupt and with status, stage and commit calls
\* that do not fail forever, the changes pending in the working tree are eventually
\* committed, unless the user has changed the tree again before: a cycle that fails at
\* status, stage or commit leaves them pending and a later cycle commits them.  (A file
\* added to the index and deleted again is no change to commit: staging drops it.)
C28_PendingChangesEventuallyCommitted ==
    \A t \in LoopTrees \ {<<>>} : \A e \in 0..MaxEdits :
        (pc \in LoopPositions /\ tree = t /\ edits = e)
            ~> (CommittedTree(t) \/ edits > e)

\* the second cycle commits what the first cycle, which failed, left pending
C28_Witness ==
    /\ cycle = 2
    /\ edits = 0
    /\ commit_count = 1
    /\ calls # <<>>
    /\ calls[Len(calls)] = call("commit", TRUE)
    /\ Len(head) = 1
    /\ tree = <<>>

\* the cycle has made a successful stage call
StageSucceededInCycle == \E i \in 1..Len(calls) : calls[i] = call("stage", TRUE)

ZeroPartsMessage ==
    action_phrase(changes) \o " " \o ToString(Len(all_files(changes))) \o " files"

\* C30: for every ChangeSet that is not empty the synthesizer has at least one part:
\* every touched path belongs to a category, `other` included, and every category with
\* a touched path gives a part; so the message is never the zero-parts fallback
\* "<action> <N> files".
C30_NeverZeroParts ==
    (pc = "synthesized" /\ total_changes(changes) > 0)
        => /\ \A f \in Range(all_files(changes)) : get_file_category(f) \in Categories
           /\ \A cat \in Categories : files_in(changes, cat) # <<>> => Len(PartOf(cat)) = 1
           /\ Len(PartsOfMessage) >= 1
           /\ Len(PartsOfMessage) = Cardinality({cat \in Categories : files_in(changes, cat) # <<>>})
           /\ message # ZeroPartsMessage

\* two files without an extension table entry and an image
C30_Witness ==
    /\ pc = "synthesized"
    /\ changes.untracked = <<<<"M","a","k","e","f","i","l","e">>, <<"p",".","p","n","g">>, <<"x",".","x","y","z">>>>
    /\ hashOrder = <<"other", "images">>
    /\ message = "Add 2 other files and p.png"

=============================================================================
